---- MODULE Spec2Model ----
(***************************************************************************)
(* Deployment-control subsystem of aiagents-multi-model:                   *)
(*   - ContainerManager   (src/src/ai_agents/deployment/containers.py)     *)
(*   - SecureBackupManager (src/src/ai_agents/deployment/backup.py)        *)
(*   - SecretsManager     (src/src/ai_agents/deployment/secrets.py)        *)
(*   - StateDetector      (src/src/ai_agents/deployment/state.py)          *)
(* and the project registry of the agents' history directory:              *)
(*   - ProjectManager     (src/src/ai_agents/core/project_manager.py)      *)
(* Every public method is one action; the external tools (podman, tar,    *)
(* age) and the filesystem calls that can fail are inputs of the action.   *)
(***************************************************************************)
EXTENDS Integers, Sequences, FiniteSets, TLC

VARIABLES
    cexists,    \* engine: agent -> the container <agent>-agent exists
    crunning,   \* engine: agent -> the container <agent>-agent is running
    cpod,       \* engine: the pod ai-agents (absent, or its status)
    ccall,      \* the last ContainerManager call: method, agent, outcome, commands issued
    clock,      \* datetime.now() in whole seconds
    live,       \* the live tree /ai
    store,      \* the backup store: artifact name (its timestamp) -> file
    latest,     \* the target of the symlink ai-backup.latest.age
    keyMarker,  \* the key file holds a "# public key:" line
    bcall,      \* the last SecureBackupManager call: arguments, outcome, stages run
    pipeline,   \* the two-stage pipeline being run: "create" (tar | age) or "restore" (age -d | tar)
    ppc,        \* where the parent is: communicate on stage 2, read of stage 1's stderr, done
    stage1,     \* first stage: state, data and stderr output still to write
    stage2,     \* second stage: state, stdout and stderr output still to write
    pipes,      \* bytes buffered in each pipe: data (stage 1 -> stage 2), err1, out2, err2
    keyFile,    \* the key-material file ~/.age-key.txt: existence, mode, public-key marker
    sfiles,     \* agent -> the file /ai/<agent>/context/.secrets.age
    sdirs,      \* agent -> the directory /ai/<agent>/context exists
    sm,         \* a SecretsManager instance has been constructed
    ident,      \* the invoking process: SUDO_USER, USER, uid, gid, umask
    scall,      \* the SecretsManager call in progress or just ended
    rfile,      \* the file history/projects.json: truncated, a registry, or torn
    rlocks,     \* process -> the flock it holds on projects.json
    rprocs,     \* process -> the ProjectManager call it is in: step, arguments, data read;
                \* outside a call, what its last call returned
    rnow,       \* datetime.now() as a logical time
    rdone,      \* the updates that calls have written and returned from
    dhistory,   \* /ai exists, and the agents whose /ai/<agent>/history exists
    dpackage,   \* the package ai_agents is importable in the container claude-agent
    dengine,    \* how starting a podman command ends: ok, timeout, notfound, oserror
    dsearch,    \* the process may search the directories below /ai
    dsnap,      \* a DeploymentState object its holder works with
    dorig,      \* the field values dsnap was constructed with
    dprops,     \* the derived properties last read from dsnap, the last exception it raised
    dcall,      \* the last detect() call in this environment: outcome, probes evaluated
    fcall       \* the last call of a method that only computes: method, arguments, result

cvars == <<cexists, crunning, cpod, ccall>>

bvars == <<clock, live, store, latest, keyMarker, bcall>>

pvars == <<pipeline, ppc, stage1, stage2, pipes>>

svars == <<keyFile, sfiles, sdirs, sm, ident, scall>>

rvars == <<rfile, rlocks, rprocs, rnow, rdone>>

dvars == <<dhistory, dpackage, dengine, dsearch, dsnap, dorig, dprops, dcall>>

vars == <<cvars, bvars, pvars, svars, rvars, dvars, fcall>>

(***************************************************************************)
(* SecureBackupManager: state                                              *)
(***************************************************************************)

\* the last second of the modelled time span
MaxClock == 2

\* self.ai_dir.exists() is false
NoTree == "absent"

\* contents of /ai (after an extraction: the tree whose files were written last)
Trees == {"tree1", "tree2"}

\* artifact names: the timestamp of ai-backup-<timestamp>.tar.gz.age
Names == 0..MaxClock

\* Popen.returncode of a process that was never waited for (Python None)
NoneRc == -1

\* no path: no symlink target, no returned path
NoPath == -1

\* exit statuses of a stage
Rcs == {0, 2}

\* no file at a path of the store
NoFile == [present |-> FALSE, tree |-> NoTree, valid |-> FALSE]

\* an artifact: the tree it archives, and whether "age -d | tar tzf -" lists it
Artifacts == [present : {TRUE}, tree : Trees, valid : BOOLEAN]

NoBCall ==
    [op |-> "-", path |-> NoPath, validate |-> FALSE, safety |-> FALSE, dry |-> FALSE,
     exc |-> "none", ret |-> NoPath, events |-> <<>>, firstRc |-> NoneRc,
     secondRc |-> NoneRc, unlinkFailed |-> FALSE, fsFault |-> "none",
     roundTrip |-> FALSE, aiExisted |-> FALSE]

\* the backup side at rest (the other components' specifications keep it so)
BackupIdle ==
    /\ clock = 1
    /\ live = "tree1"
    /\ store = [n \in Names |-> NoFile]
    /\ latest = NoPath
    /\ keyMarker = TRUE
    /\ bcall = NoBCall

(***************************************************************************)
(* The two-stage pipelines of create_backup and restore_backup: state      *)
(***************************************************************************)

\* capacity of an operating-system pipe buffer, in units of output
PipeCap == 2

\* the most output a stage writes to one of its streams
MaxOut == 3

\* no pipeline is running (the other components' specifications keep it so)
PipelineIdle ==
    /\ pipeline = "-"
    /\ ppc = "done"
    /\ stage1 = [state |-> "exited", data |-> 0, err |-> 0]
    /\ stage2 = [state |-> "exited", out |-> 0, err |-> 0]
    /\ pipes = [data |-> 0, err1 |-> 0, out2 |-> 0, err2 |-> 0]

(***************************************************************************)
(* SecretsManager: state                                                   *)
(***************************************************************************)

\* a & b on non-negative integers (Python's bitwise and)
RECURSIVE BitAnd(_, _)
BitAnd(a, b) ==
    IF a = 0 \/ b = 0 THEN 0
    ELSE (a % 2) * (b % 2) + 2 * BitAnd(a \div 2, b \div 2)

\* modes of the key file, written in decimal: 0o600, 0o700, 0o644
KeyModes == {384, 448, 420}

\* the key-material file is absent
NoKeyFile == [exists |-> FALSE, mode |-> 0, marker |-> FALSE]

\* the key-material file as the operator set it up
GoodKeyFile == [exists |-> TRUE, mode |-> 384, marker |-> TRUE]

\* the states of the key-material file
KeyFiles ==
    {NoKeyFile} \cup [exists : {TRUE}, mode : KeyModes, marker : {TRUE}]
                \cup [exists : {TRUE}, mode : {384}, marker : {FALSE}]

\* a secret string: the prefix it starts with, its length, the rest of its
\* characters, and whether it consists of whitespace only
Plaintexts ==
    {p \in [prefix : {"sk-ant-", "xai-", "AIza", ""}, len : {0, 30, 31, 50, 51},
            tail : {"a", "b"}, blank : BOOLEAN] :
        /\ p.blank => (p.prefix = "" /\ p.tail = "a")
        /\ p.len = 0 => p.blank
        /\ p.tail = "b" => (p.prefix = "sk-ant-" /\ p.len = 51)
        /\ p.prefix = "sk-ant-" => p.len \in {50, 51}
        /\ p.prefix \in {"xai-", "AIza"} => p.len \in {30, 31}
        /\ p.prefix = "" => p.len \in {0, 31}}

\* no file at a secret path
NoSecretFile ==
    [exists |-> FALSE, mode |-> 0, uid |-> 0, gid |-> 0,
     plain |-> [prefix |-> "", len |-> 0, tail |-> "a", blank |-> TRUE], intact |-> FALSE]

\* an exception: its type and the parts of its message
Exc(type, msg) == [type |-> type, msg |-> msg]

\* no exception
NoExc == Exc("none", <<>>)

\* a Python bool as a returned value
Bool(b) == IF b THEN "True" ELSE "False"

\* no SecretsManager call is in progress
NoSCall ==
    [op |-> "-", agent |-> "-", pc |-> "idle", exc |-> NoExc,
     ret |-> "None", logs |-> <<>>, cmds |-> <<>>, probed |-> <<>>, mkdir |-> FALSE,
     hangs |-> FALSE, valid |-> "-", wrote |-> FALSE, rc |-> NoneRc]

\* the operator alice runs the command through sudo, with umask 0o077
SudoAlice == [sudo_user |-> "alice", user |-> "root", uid |-> 0, gid |-> 0, umask |-> 63]

\* the secrets side at rest (the other components' specifications keep it so)
SecretsIdle ==
    /\ keyFile = GoodKeyFile
    /\ sfiles = [a \in {"claude", "grok", "gemini"} |-> NoSecretFile]
    /\ sdirs = [a \in {"claude", "grok", "gemini"} |-> FALSE]
    /\ sm = FALSE
    /\ ident = SudoAlice
    /\ scall = NoSCall

(***************************************************************************)
(* Methods that only compute: state                                        *)
(***************************************************************************)

\* no such call has been made
NoFCall == [fn |-> "-"]

\* (the other components' specifications keep it so)
FunctionsIdle == fcall = NoFCall

(***************************************************************************)
(* ProjectManager: state                                                   *)
(***************************************************************************)

\* the processes that use the same history directory
Procs == {"proc1", "proc2"}

\* project names and conversation names (all of one length)
ProjectNames == {"alpha", "gamma"}

ConversationNames == {"conv1", "conv2"}

\* the last logical time datetime.now() returns
MaxNow == 3

\* a name that is not a key of data["projects"]
NoProject == [present |-> FALSE, conversations |-> <<>>, last_activity |-> 0]

\* {"projects": {}}
EmptyRegistry == [n \in ProjectNames |-> NoProject]

\* number of elements of a finite set of project names that are keys of reg
RECURSIVE Present(_, _)
Present(reg, names) ==
    IF names = {} THEN 0
    ELSE LET n == CHOOSE x \in names : TRUE
         IN  (IF reg[n].present THEN 1 ELSE 0) + Present(reg, names \ {n})

\* bytes json.dump(..., indent=2) writes for the "conversations" lists of reg beyond "[]"
RECURSIVE ListBytes(_, _)
ListBytes(reg, names) ==
    IF names = {} THEN 0
    ELSE LET n == CHOOSE x \in names : TRUE
             k == Len(reg[n].conversations)
         IN  (IF k = 0 THEN 0 ELSE 20 + 14 * (k - 1)) + ListBytes(reg, names \ {n})

\* bytes json.dump(data, f, indent=2) writes for the registry reg
Size(reg) ==
    LET k == Present(reg, ProjectNames)
    IN  20 + (IF k = 0 THEN 0 ELSE 175 + 173 * (k - 1)) + ListBytes(reg, ProjectNames)

\* projects.json holding the complete JSON text of reg
JsonFile(reg) == [kind |-> "json", data |-> reg, size |-> Size(reg)]

\* projects.json just truncated by open(..., 'w')
TruncatedFile == [kind |-> "empty", data |-> EmptyRegistry, size |-> 0]

\* a process outside any ProjectManager call
IdleProc ==
    [pc |-> "idle", op |-> "-", name |-> "-", conv |-> "-", data |-> EmptyRegistry,
     at |-> 0, ret |-> "-"]

\* the registry at rest (the other components' specifications keep it so)
RegistryIdle ==
    /\ rfile = JsonFile(EmptyRegistry)
    /\ rlocks = [p \in Procs |-> "none"]
    /\ rprocs = [p \in Procs |-> IdleProc]
    /\ rnow = 0
    /\ rdone = {}

(***************************************************************************)
(* StateDetector and DeploymentState: state                                *)
(***************************************************************************)

\* no DeploymentState object
NoSnapshot ==
    [made |-> FALSE, containers_running |-> FALSE, age_key_exists |-> FALSE,
     secrets_configured |-> [a \in {} |-> FALSE], history_dirs_exist |-> FALSE,
     python_package_installed |-> FALSE]

\* no property of dsnap has been read
NoProps ==
    [read |-> FALSE, is_fresh_install |-> FALSE, needs_secrets |-> FALSE,
     is_fully_deployed |-> FALSE, exc |-> "none"]

\* no detect() call has been made since the environment last changed
NoDCall == [made |-> FALSE, n |-> 0, exc |-> "none", ret |-> NoSnapshot, probes |-> <<>>]

\* how starting a podman command can end: it runs, subprocess.run raises
\* TimeoutExpired, FileNotFoundError, or another OSError (PermissionError)
EngineStates == {"ok", "timeout", "notfound", "oserror"}

\* the detector's side at rest (the other components' specifications keep it so)
DetectIdle ==
    /\ dhistory = [ai |-> FALSE, dirs |-> {}]
    /\ dpackage = FALSE
    /\ dengine = "ok"
    /\ dsearch = TRUE
    /\ dsnap = NoSnapshot
    /\ dorig = NoSnapshot
    /\ dprops = NoProps
    /\ dcall = NoDCall

(***************************************************************************)
(* ContainerManager                                                        *)
(***************************************************************************)

\* self.agents
agents == {"claude", "grok", "gemini"}

\* identifiers a caller may pass: the three agents and strings outside the set
AgentInputs == agents \cup {"invalid_agent", "../../etc/passwd", "claude; rm -rf /"}

\* the largest position of a podman invocation inside one call that may fail
MaxFaultAt == 4

\* what the engine and the operating system do during one call:
\*   faultAt   the position of the podman invocation that raises (0: none)
\*   faultKind subprocess.TimeoutExpired or FileNotFoundError
\*   rcOk      the start/stop/restart/inspect/exec command exits 0
\*   psOk      the "podman ps" query exits 0
\*   fields    number of |-separated fields of the inspect output
EngineEnvs ==
    [faultAt : 0..MaxFaultAt, faultKind : {"timeout", "notfound"},
     rcOk : BOOLEAN, psOk : BOOLEAN, fields : {3, 4}]

ExecCommands == {<<"ls">>, <<"cat", "/etc/passwd">>}

\* outcome of a call: the exception raised ("none": normal return), the returned
\* value, the podman command lines issued in order, and the engine afterwards
Outcome(exc, ret, cmds, run) == [exc |-> exc, ret |-> ret, cmds |-> cmds, run |-> run]

\* container_name = f"{agent}-agent"
container_name(agent) == <<agent, "-agent">>

\* _validate_agent with the membership test dropped
validate_agent_no_check(agent) == TRUE

\* _validate_agent: TRUE when it returns, FALSE when it raises ValueError
validate_agent(agent) == agent \in agents

\* self.timeout, in seconds
DefaultTimeout == 30

\* timeout=None (or 0) passed to _run_podman
NoTimeout == 0

\* a timeout passed by the caller of exec_in_container, in seconds
CallerTimeout == 5

\* self.pod_name
pod_name == "ai-agents"

\* the engine's pod: absent, or present with the status that "podman pod ps" prints
PodStates == {"absent", "Exited", "Degraded", "Running"}

\* exit status of a command that succeeds iff ok
RcOf(ok) == IF ok THEN 0 ELSE 1

\* _run_podman with the exceptions of subprocess.run swallowed
run_podman_no_raise(cmds, args, timeout, rc, env) ==
    [cmds |-> Append(cmds, [argv |-> <<"podman">> \o args,
                            timeout |-> IF timeout = NoTimeout THEN DefaultTimeout
                                        ELSE timeout,
                            fault |-> IF Len(cmds) + 1 = env.faultAt THEN env.faultKind
                                      ELSE "none",
                            rc |-> rc]),
     raised |-> FALSE]

\* _run_podman: runs ["podman"] + args once with timeout "timeout or self.timeout"
\* and appends it to the commands issued; raises ContainerError when subprocess.run
\* times out or podman is missing, else returns the result with exit status rc
run_podman(cmds, args, timeout, rc, env) ==
    LET t == IF timeout = NoTimeout THEN DefaultTimeout ELSE timeout
        raised == Len(cmds) + 1 = env.faultAt
    IN  [cmds |-> Append(cmds, [argv |-> <<"podman">> \o args, timeout |-> t,
                                fault |-> IF raised THEN env.faultKind ELSE "none",
                                rc |-> IF raised THEN NoneRc ELSE rc]),
         raised |-> raised]

\* pod_exists
pod_exists(cmds, pod, env) ==
    LET r == run_podman(cmds, <<"pod", "exists", pod_name>>, NoTimeout,
                        RcOf(pod # "absent"), env)
    IN  IF r.raised THEN [exc |-> "ContainerError", ret |-> "-", cmds |-> r.cmds]
        ELSE [exc |-> "none", ret |-> Bool(pod # "absent"), cmds |-> r.cmds]

\* is_pod_running: "Running" in the status printed by "podman pod ps"
is_pod_running(cmds, pod, env) ==
    LET e == pod_exists(cmds, pod, env)
    IN  IF e.exc # "none" THEN e
        ELSE IF e.ret = "False" THEN [exc |-> "none", ret |-> "False", cmds |-> e.cmds]
        ELSE LET r == run_podman(e.cmds,
                          <<"pod", "ps", "--filter", "name=", pod_name, "--format",
                            "{{.Status}}">>, NoTimeout, RcOf(env.psOk), env)
             IN  IF r.raised THEN [exc |-> "ContainerError", ret |-> "-", cmds |-> r.cmds]
                 ELSE IF ~env.psOk THEN [exc |-> "none", ret |-> "False", cmds |-> r.cmds]
                 ELSE [exc |-> "none", ret |-> Bool(pod = "Running"), cmds |-> r.cmds]

\* container_exists
container_exists(agent, cmds, run, env) ==
    IF ~validate_agent(agent) THEN Outcome("ValueError", "-", cmds, run)
    ELSE LET r == run_podman(cmds, <<"container", "exists", container_name(agent)>>,
                             NoTimeout, RcOf(agent \in agents /\ cexists[agent]), env)
         IN  IF r.raised THEN Outcome("ContainerError", "-", r.cmds, run)
             ELSE Outcome("none",
                          IF agent \in agents /\ cexists[agent] THEN "True" ELSE "False",
                          r.cmds, run)

\* is_container_running answering whether the container exists
is_container_running_as_exists(agent, cmds, run, env) ==
    container_exists(agent, cmds, run, env)

\* is_container_running
is_container_running(agent, cmds, run, env) ==
    IF ~validate_agent(agent) THEN Outcome("ValueError", "-", cmds, run)
    ELSE LET e == container_exists(agent, cmds, run, env)
         IN  IF e.exc # "none" THEN e
             ELSE IF e.ret = "False" THEN Outcome("none", "False", e.cmds, run)
             ELSE LET r == run_podman(e.cmds,
                              <<"ps", "--filter", "name=", container_name(agent),
                                "--format", "{{.Names}}">>, NoTimeout, RcOf(env.psOk),
                              env)
                  IN  IF r.raised THEN Outcome("ContainerError", "-", r.cmds, run)
                      ELSE IF ~env.psOk THEN Outcome("none", "False", r.cmds, run)
                      ELSE Outcome("none",
                                   IF agent \in agents /\ run[agent] THEN "True" ELSE "False",
                                   r.cmds, run)

\* start_container
start_container(agent, cmds, run, env) ==
    IF ~validate_agent(agent) THEN Outcome("ValueError", "-", cmds, run)
    ELSE LET q == is_container_running(agent, cmds, run, env)
         IN  IF q.exc # "none" THEN q
             ELSE IF q.ret = "True" THEN Outcome("none", "True", q.cmds, run)
             ELSE LET e == container_exists(agent, q.cmds, run, env)
                  IN  IF e.exc # "none" THEN e
                      ELSE IF e.ret = "False" THEN Outcome("none", "False", e.cmds, run)
                      ELSE LET r == run_podman(e.cmds, <<"start", container_name(agent)>>,
                                               NoTimeout, RcOf(env.rcOk), env)
                           IN  IF r.raised THEN Outcome("ContainerError", "-", r.cmds, run)
                               ELSE IF env.rcOk
                                    THEN Outcome("none", "True", r.cmds,
                                                 [run EXCEPT ![agent] = TRUE])
                                    ELSE Outcome("none", "False", r.cmds, run)

\* the graceful-stop timeout passed to "podman stop -t"
StopTimeout == 10

\* stop_container
stop_container(agent, cmds, run, env) ==
    IF ~validate_agent(agent) THEN Outcome("ValueError", "-", cmds, run)
    ELSE LET q == is_container_running(agent, cmds, run, env)
         IN  IF q.exc # "none" THEN q
             ELSE IF q.ret = "False" THEN Outcome("none", "True", q.cmds, run)
             ELSE LET r == run_podman(q.cmds,
                              <<"stop", "-t", StopTimeout, container_name(agent)>>,
                              NoTimeout, RcOf(env.rcOk), env)
                  IN  IF r.raised THEN Outcome("ContainerError", "-", r.cmds, run)
                      ELSE IF env.rcOk
                           THEN Outcome("none", "True", r.cmds,
                                        [run EXCEPT ![agent] = FALSE])
                           ELSE Outcome("none", "False", r.cmds, run)

\* restart_container
restart_container(agent, cmds, run, env) ==
    IF ~validate_agent(agent) THEN Outcome("ValueError", "-", cmds, run)
    ELSE LET e == container_exists(agent, cmds, run, env)
         IN  IF e.exc # "none" THEN e
             ELSE IF e.ret = "False" THEN Outcome("none", "False", e.cmds, run)
             ELSE LET r == run_podman(e.cmds, <<"restart", container_name(agent)>>,
                                      NoTimeout, RcOf(env.rcOk), env)
                  IN  IF r.raised THEN Outcome("ContainerError", "-", r.cmds, run)
                      ELSE IF env.rcOk
                           THEN Outcome("none", "True", r.cmds,
                                        [run EXCEPT ![agent] = TRUE])
                           ELSE Outcome("none", "False", r.cmds, run)

\* exec_in_container with the running check left out
exec_in_container_no_running_check(agent, command, timeout, check, cmds, run, env) ==
    IF ~validate_agent(agent) THEN Outcome("ValueError", "-", cmds, run)
    ELSE LET r == run_podman(cmds, <<"exec", container_name(agent)>> \o command,
                             timeout, RcOf(env.rcOk), env)
         IN  IF r.raised THEN Outcome("ContainerError", "-", r.cmds, run)
             ELSE IF check /\ ~env.rcOk
                  THEN Outcome("ContainerError", "-", r.cmds, run)
                  ELSE Outcome("none", "CompletedProcess", r.cmds, run)

\* exec_in_container
exec_in_container(agent, command, timeout, check, cmds, run, env) ==
    IF ~validate_agent(agent) THEN Outcome("ValueError", "-", cmds, run)
    ELSE LET q == is_container_running(agent, cmds, run, env)
         IN  IF q.exc # "none" THEN q
             ELSE IF q.ret = "False" THEN Outcome("ContainerError", "-", q.cmds, run)
             ELSE LET r == run_podman(q.cmds,
                              <<"exec", container_name(agent)>> \o command, timeout,
                              RcOf(env.rcOk), env)
                  IN  IF r.raised THEN Outcome("ContainerError", "-", r.cmds, run)
                      ELSE IF check /\ ~env.rcOk
                           THEN Outcome("ContainerError", "-", r.cmds, run)
                           ELSE Outcome("none", "CompletedProcess", r.cmds, run)

\* outcome of a pod operation: as Outcome, with the pod afterwards
PodOutcome(exc, ret, cmds, run, pod) ==
    [exc |-> exc, ret |-> ret, cmds |-> cmds, run |-> run, pod |-> pod]

\* start_pod; a started pod runs all its containers
start_pod(cmds, run, pod, env) ==
    LET e == pod_exists(cmds, pod, env)
    IN  IF e.exc # "none" THEN PodOutcome(e.exc, "-", e.cmds, run, pod)
        ELSE IF e.ret = "False" THEN PodOutcome("none", "False", e.cmds, run, pod)
        ELSE LET q == is_pod_running(e.cmds, pod, env)
             IN  IF q.exc # "none" THEN PodOutcome(q.exc, "-", q.cmds, run, pod)
                 ELSE IF q.ret = "True" THEN PodOutcome("none", "True", q.cmds, run, pod)
                 ELSE LET r == run_podman(q.cmds, <<"pod", "start", pod_name>>,
                                          NoTimeout, RcOf(env.rcOk), env)
                      IN  IF r.raised
                          THEN PodOutcome("ContainerError", "-", r.cmds, run, pod)
                          ELSE IF env.rcOk
                               THEN PodOutcome("none", "True", r.cmds, cexists, "Running")
                               ELSE PodOutcome("none", "False", r.cmds, run, pod)

\* stop_pod; a stopped pod runs none of its containers
stop_pod(cmds, run, pod, env) ==
    LET e == pod_exists(cmds, pod, env)
    IN  IF e.exc # "none" THEN PodOutcome(e.exc, "-", e.cmds, run, pod)
        ELSE IF e.ret = "False" THEN PodOutcome("none", "True", e.cmds, run, pod)
        ELSE LET q == is_pod_running(e.cmds, pod, env)
             IN  IF q.exc # "none" THEN PodOutcome(q.exc, "-", q.cmds, run, pod)
                 ELSE IF q.ret = "False" THEN PodOutcome("none", "True", q.cmds, run, pod)
                 ELSE LET r == run_podman(q.cmds,
                                  <<"pod", "stop", "-t", StopTimeout, pod_name>>,
                                  NoTimeout, RcOf(env.rcOk), env)
                      IN  IF r.raised
                          THEN PodOutcome("ContainerError", "-", r.cmds, run, pod)
                          ELSE IF env.rcOk
                               THEN PodOutcome("none", "True", r.cmds,
                                               [a \in agents |-> FALSE], "Exited")
                               ELSE PodOutcome("none", "False", r.cmds, run, pod)

\* restart_pod
restart_pod(cmds, run, pod, env) ==
    LET e == pod_exists(cmds, pod, env)
    IN  IF e.exc # "none" THEN PodOutcome(e.exc, "-", e.cmds, run, pod)
        ELSE IF e.ret = "False" THEN PodOutcome("none", "False", e.cmds, run, pod)
        ELSE LET r == run_podman(e.cmds, <<"pod", "restart", pod_name>>, NoTimeout,
                                 RcOf(env.rcOk), env)
             IN  IF r.raised THEN PodOutcome("ContainerError", "-", r.cmds, run, pod)
                 ELSE IF env.rcOk
                      THEN PodOutcome("none", "True", r.cmds, cexists, "Running")
                      ELSE PodOutcome("none", "False", r.cmds, run, pod)

\* get_container_info
get_container_info(agent, cmds, run, env) ==
    IF ~validate_agent(agent) THEN Outcome("ValueError", "-", cmds, run)
    ELSE LET e == container_exists(agent, cmds, run, env)
         IN  IF e.exc # "none" THEN e
             ELSE IF e.ret = "False" THEN Outcome("none", "None", e.cmds, run)
             ELSE LET r == run_podman(e.cmds,
                              <<"inspect", container_name(agent), "--format",
                                "{{.Name}}|{{.State.Status}}|{{.Pod}}|{{.ImageName}}">>,
                              NoTimeout, RcOf(env.rcOk), env)
                  IN  IF r.raised THEN Outcome("ContainerError", "-", r.cmds, run)
                      ELSE IF ~env.rcOk THEN Outcome("none", "None", r.cmds, run)
                      ELSE IF env.fields # 4 THEN Outcome("none", "None", r.cmds, run)
                      ELSE Outcome("none", "ContainerInfo", r.cmds, run)

\* list_all_containers: get_container_info for the agents of todo, in order; the
\* returned value is the sequence of agents for which an info was obtained
RECURSIVE list_all_containers(_, _, _, _, _)
list_all_containers(todo, found, cmds, run, env) ==
    IF todo = <<>> THEN Outcome("none", found, cmds, run)
    ELSE LET i == get_container_info(Head(todo), cmds, run, env)
         IN  IF i.exc # "none" THEN Outcome(i.exc, <<>>, i.cmds, run)
             ELSE list_all_containers(Tail(todo),
                      IF i.ret = "ContainerInfo" THEN Append(found, Head(todo)) ELSE found,
                      i.cmds, run, env)

AgentMethods ==
    {"container_exists", "is_container_running", "start_container", "stop_container",
     "restart_container", "exec_in_container", "get_container_info"}

\* no call in progress.  A call records its method and arguments, the state of the
\* unit it is about when it began (before), and its outcome
NoCall ==
    [method |-> "-", agent |-> "-", timeout |-> NoTimeout, before |-> "-",
     exc |-> "none", ret |-> "-", cmds |-> <<>>]

\* the environments that differ in what a method with these queries can observe
EnvsOf(rcs, pss, flds) ==
    {e \in EngineEnvs : e.rcOk \in rcs /\ e.psOk \in pss /\ e.fields \in flds}

\* the call of method m on agent with this timeout argument ended with outcome o
CalledWithTimeout(m, agent, timeout, o) ==
    /\ ccall = NoCall
    /\ ccall' = [method |-> m, agent |-> agent, timeout |-> timeout,
                 before |-> IF agent \in agents THEN Bool(crunning[agent]) ELSE "-",
                 exc |-> o.exc, ret |-> o.ret, cmds |-> o.cmds]
    /\ crunning' = o.run
    /\ UNCHANGED <<cexists, cpod, bvars, pvars, svars, rvars, dvars, fcall>>

\* the call of method m on agent ended with outcome o
Called(m, agent, o) == CalledWithTimeout(m, agent, NoTimeout, o)

\* the call of pod method m ended with outcome o
CalledPod(m, o) ==
    /\ ccall = NoCall
    /\ ccall' = [method |-> m, agent |-> "-", timeout |-> NoTimeout, before |-> cpod,
                 exc |-> o.exc, ret |-> o.ret, cmds |-> o.cmds]
    /\ crunning' = o.run
    /\ cpod' = o.pod
    /\ UNCHANGED <<cexists, bvars, pvars, svars, rvars, dvars, fcall>>

CallContainerExists ==
    \E agent \in AgentInputs, env \in EnvsOf({TRUE}, {TRUE}, {4}) :
        Called("container_exists", agent, container_exists(agent, <<>>, crunning, env))

CallIsContainerRunning ==
    \E agent \in AgentInputs, env \in EnvsOf({TRUE}, BOOLEAN, {4}) :
        Called("is_container_running", agent,
               is_container_running(agent, <<>>, crunning, env))

CallStartContainer ==
    \E agent \in AgentInputs, env \in EnvsOf(BOOLEAN, BOOLEAN, {4}) :
        Called("start_container", agent, start_container(agent, <<>>, crunning, env))

CallStopContainer ==
    \E agent \in AgentInputs, env \in EnvsOf(BOOLEAN, BOOLEAN, {4}) :
        Called("stop_container", agent, stop_container(agent, <<>>, crunning, env))

CallRestartContainer ==
    \E agent \in AgentInputs, env \in EnvsOf(BOOLEAN, {TRUE}, {4}) :
        Called("restart_container", agent, restart_container(agent, <<>>, crunning, env))

CallExecInContainer ==
    \E agent \in AgentInputs, command \in ExecCommands, check \in BOOLEAN,
       timeout \in {NoTimeout, CallerTimeout}, env \in EnvsOf(BOOLEAN, BOOLEAN, {4}) :
        CalledWithTimeout("exec_in_container", agent, timeout,
               exec_in_container(agent, command, timeout, check, <<>>, crunning, env))

CallGetContainerInfo ==
    \E agent \in AgentInputs, env \in EnvsOf(BOOLEAN, {TRUE}, {3, 4}) :
        Called("get_container_info", agent, get_container_info(agent, <<>>, crunning, env))

CallPodExists ==
    \E env \in EnvsOf({TRUE}, {TRUE}, {4}) :
        LET o == pod_exists(<<>>, cpod, env)
        IN  CalledPod("pod_exists", PodOutcome(o.exc, o.ret, o.cmds, crunning, cpod))

CallIsPodRunning ==
    \E env \in EnvsOf({TRUE}, BOOLEAN, {4}) :
        LET o == is_pod_running(<<>>, cpod, env)
        IN  CalledPod("is_pod_running", PodOutcome(o.exc, o.ret, o.cmds, crunning, cpod))

CallStartPod ==
    \E env \in EnvsOf(BOOLEAN, BOOLEAN, {4}) :
        CalledPod("start_pod", start_pod(<<>>, crunning, cpod, env))

CallStopPod ==
    \E env \in EnvsOf(BOOLEAN, BOOLEAN, {4}) :
        CalledPod("stop_pod", stop_pod(<<>>, crunning, cpod, env))

CallRestartPod ==
    \E env \in EnvsOf(BOOLEAN, {TRUE}, {4}) :
        CalledPod("restart_pod", restart_pod(<<>>, crunning, cpod, env))

CallListAllContainers ==
    \E env \in EnvsOf(BOOLEAN, {TRUE}, {3, 4}) :
        Called("list_all_containers", "-",
               list_all_containers(<<"claude", "grok", "gemini">>, <<>>, <<>>, crunning,
                                   env))

\* the engine outside this program: a container is created, removed or exits
EngineChange ==
    \E a \in agents :
        /\ ccall = NoCall
        /\ \/ cexists' = [cexists EXCEPT ![a] = TRUE] /\ UNCHANGED crunning
           \/ /\ cexists' = [cexists EXCEPT ![a] = FALSE]
              /\ crunning' = [crunning EXCEPT ![a] = FALSE]
           \/ cexists[a] /\ crunning' = [crunning EXCEPT ![a] = FALSE] /\ UNCHANGED cexists
        /\ UNCHANGED <<cpod, ccall, bvars, pvars, svars, rvars, dvars, fcall>>

\* the engine outside this program: the pod is created, removed or changes status
PodChange ==
    /\ ccall = NoCall
    /\ cpod' \in PodStates \ {cpod}
    /\ UNCHANGED <<cexists, crunning, ccall, bvars, pvars, svars, rvars, dvars, fcall>>

\* the caller takes the outcome; the manager is ready for the next call
ContainerReturn ==
    /\ ccall # NoCall
    /\ ccall' = NoCall
    /\ UNCHANGED <<cexists, crunning, cpod, bvars, pvars, svars, rvars, dvars, fcall>>

ContainersInit ==
    /\ cexists \in [agents -> BOOLEAN]
    /\ crunning \in [agents -> BOOLEAN]
    /\ \A a \in agents : crunning[a] => cexists[a]
    /\ cpod \in PodStates
    /\ ccall = NoCall
    /\ BackupIdle
    /\ PipelineIdle
    /\ SecretsIdle
    /\ RegistryIdle
    /\ DetectIdle
    /\ FunctionsIdle

ContainersNext ==
    \/ CallContainerExists
    \/ CallIsContainerRunning
    \/ CallStartContainer
    \/ CallStopContainer
    \/ CallRestartContainer
    \/ CallExecInContainer
    \/ CallGetContainerInfo
    \/ CallPodExists
    \/ CallIsPodRunning
    \/ CallStartPod
    \/ CallStopPod
    \/ CallRestartPod
    \/ CallListAllContainers
    \/ PodChange
    \/ ContainerReturn
    \/ EngineChange

ContainersSpec == ContainersInit /\ [][ContainersNext]_vars

(***************************************************************************)
(* SecureBackupManager: operations                                         *)
(***************************************************************************)

\* what tar, age and the filesystem do during one create_backup:
\*   tarRc, ageRc  exit statuses of the archiving and the encryption stage
\*   wrote         age created (or truncated) the output file
\*   valid         the written file decrypts and lists
\*   fsFault       chmod or os.chown raises (they run only after both stages exit 0)
\*   unlinkOk      backup_path.unlink() in the cleanup succeeds
CreateEnvs ==
    {e \in [tarRc : Rcs, ageRc : Rcs, wrote : BOOLEAN, valid : BOOLEAN,
            fsFault : {"none", "chmod", "chown"}, unlinkOk : BOOLEAN] :
        /\ e.ageRc = 0 => e.wrote
        /\ e.valid => e.wrote
        /\ e.fsFault # "none" => (e.tarRc = 0 /\ e.ageRc = 0)}

\* what age and tar do during the decrypt-and-extract pipeline of restore_backup:
\*   ageRc, tarRc  exit statuses of the decrypt and the extract stage
\*   partial       a failing pipeline has already written files under /
RestoreEnvs ==
    {e \in [ageRc : Rcs, tarRc : Rcs, partial : BOOLEAN] :
        e.partial => (e.ageRc # 0 \/ e.tarRc # 0)}

\* the filesystem state the operations read and write
Fs(st, lt, lv) == [store |-> st, latest |-> lt, live |-> lv]

\* Popen.returncode as the parent reads it: the exit status once the process has
\* been waited for (communicate), None before that
Returncode(waited, rc) == IF waited THEN rc ELSE NoneRc

\* _validate_backup answering True for every file that exists
validate_backup_any_file(st, path) == st[path].present

\* _validate_backup: the list stage exits 0 with a non-empty listing
validate_backup(st, path) == st[path].present /\ st[path].valid

\* the stages of create_backup's pipeline, in program order
CreateStages == <<"archive_start", "encrypt_start", "encrypt_wait", "archive_stderr_read">>

\* create_backup, lines 115-123: communicate() waits for age only; tar is never
\* waited for, so tar_process.returncode is still None when it is compared with 0
CreateStatus(env) ==
    IF Returncode(FALSE, env.tarRc) # 0 THEN "tar"
    ELSE IF Returncode(TRUE, env.ageRc) # 0 THEN "age"
    ELSE "none"

\* the except branch of create_backup with the unlink left out
CleanupKeep(st, path, env) == [store |-> st, unlinkFailed |-> FALSE]

\* create_backup, lines 152-158: unlink the partial artifact if it exists; a failing
\* unlink is logged and otherwise ignored
Cleanup(st, path, env) ==
    IF st[path].present
    THEN IF env.unlinkOk
         THEN [store |-> [st EXCEPT ![path] = NoFile], unlinkFailed |-> FALSE]
         ELSE [store |-> st, unlinkFailed |-> TRUE]
    ELSE [store |-> st, unlinkFailed |-> FALSE]

\* the result of create_backup
Created(exc, ret, fs, events, env, unlinkFailed) ==
    [exc |-> exc, ret |-> ret, fs |-> fs, events |-> events,
     firstRc |-> env.tarRc, secondRc |-> env.ageRc, unlinkFailed |-> unlinkFailed]

\* create_backup(validate) at second now, on filesystem fs
create_backup(validate, fs, now, key, env) ==
    IF fs.live = NoTree
    THEN Created("BackupError", NoPath, fs, <<>>, env, FALSE)
    ELSE IF ~key
    THEN Created("SecurityError", NoPath, fs, <<>>, env, FALSE)
    ELSE
      LET path == now
          written == IF env.wrote
                     THEN [present |-> TRUE, tree |-> fs.live, valid |-> env.valid]
                     ELSE fs.store[path]
          st1 == [fs.store EXCEPT ![path] = written]
          staged == CreateStatus(env)
          failure ==
              IF staged # "none" THEN staged
              ELSE IF env.fsFault # "none" THEN env.fsFault
              ELSE IF validate /\ ~validate_backup(st1, path) THEN "validation"
              ELSE "none"
          events == IF staged = "none" /\ env.fsFault = "none" /\ validate
                    THEN Append(CreateStages, "validate")
                    ELSE CreateStages
      IN  IF failure = "none"
          THEN Created("none", path, Fs(st1, path, fs.live),
                       Append(events, "latest_updated"), env, FALSE)
          ELSE LET c == Cleanup(st1, path, env)
               IN  Created("BackupError", path, Fs(c.store, fs.latest, fs.live),
                           Append(events, "cleanup"), env, c.unlinkFailed)

\* a create_backup environment for a call that creates nothing
NoCreateEnv ==
    [tarRc |-> 0, ageRc |-> 0, wrote |-> TRUE, valid |-> TRUE, fsFault |-> "none",
     unlinkOk |-> TRUE]

\* the result of restore_backup
Restored(exc, fs, events, firstRc, secondRc) ==
    [exc |-> exc, fs |-> fs, events |-> events, firstRc |-> firstRc, secondRc |-> secondRc]

\* restore_backup, lines 272-279: communicate() waits for tar only; age is never
\* waited for, so age_process.returncode is still None when it is compared with 0
RestoreStatus(ageRc, tarRc) ==
    IF Returncode(FALSE, ageRc) # 0 THEN "age"
    ELSE IF Returncode(TRUE, tarRc) # 0 THEN "tar"
    ELSE "none"

\* restore_backup, lines 250-289: decrypt the artifact and extract it over the live tree
Extract(path, fs, events, env) ==
    LET target == fs.store[path]
        ageRc == IF target.present THEN env.ageRc ELSE 2
        tarRc == IF target.present THEN env.tarRc ELSE 2
        lv == IF ageRc = 0 /\ tarRc = 0 THEN target.tree
              ELSE IF target.present /\ env.partial THEN target.tree
              ELSE fs.live
        ev == events \o <<"decrypt_start", "extract_start", "extract_wait">>
    IN  Restored(IF RestoreStatus(ageRc, tarRc) = "none" THEN "none" ELSE "BackupError",
                 Fs(fs.store, fs.latest, lv), ev, ageRc, tarRc)

\* restore_backup with the extraction started before the safety backup is taken
restore_backup_extract_first(path, safety, dry, fs, now, key, env, senv) ==
    IF ~fs.store[path].present
    THEN Restored("BackupError", fs, <<>>, NoneRc, NoneRc)
    ELSE IF ~validate_backup(fs.store, path)
    THEN Restored("SecurityError", fs, <<"validate">>, NoneRc, NoneRc)
    ELSE IF dry
    THEN Restored("none", fs, <<"validate", "show_contents">>, NoneRc, NoneRc)
    ELSE
      LET x == Extract(path, fs, <<"validate">>, env)
      IN  IF safety /\ fs.live # NoTree
          THEN LET c == create_backup(FALSE, x.fs, now, key, senv)
               IN  Restored(x.exc, c.fs,
                            x.events \o <<"safety_begin">> \o c.events \o <<"safety_end">>,
                            x.firstRc, x.secondRc)
          ELSE x

\* restore_backup with the dry-run return left out: the call goes on to extract
restore_backup_dry_extracts(path, safety, dry, fs, now, key, env, senv) ==
    IF ~fs.store[path].present
    THEN Restored("BackupError", fs, <<>>, NoneRc, NoneRc)
    ELSE IF ~validate_backup(fs.store, path)
    THEN Restored("SecurityError", fs, <<"validate">>, NoneRc, NoneRc)
    ELSE Extract(path, fs, <<"validate", "show_contents">>, env)

\* restore_backup(path, create_safety_backup, dry_run) at second now
restore_backup(path, safety, dry, fs, now, key, env, senv) ==
    IF ~fs.store[path].present
    THEN Restored("BackupError", fs, <<>>, NoneRc, NoneRc)
    ELSE IF ~validate_backup(fs.store, path)
    THEN Restored("SecurityError", fs, <<"validate">>, NoneRc, NoneRc)
    ELSE IF dry
    THEN Restored("none", fs, <<"validate", "show_contents">>, NoneRc, NoneRc)
    ELSE IF safety /\ fs.live # NoTree
    THEN LET c == create_backup(FALSE, fs, now, key, senv)
             ev == <<"validate", "safety_begin">> \o c.events \o <<"safety_end">>
         IN  IF c.exc = "SecurityError"
             THEN Restored("SecurityError", c.fs, ev, NoneRc, NoneRc)
             ELSE Extract(path, c.fs, ev, env)
    ELSE Extract(path, fs, <<"validate">>, env)

\* delete_backup removing every artifact of the store
delete_backup_whole_store(path, fs, unlinkOk) ==
    IF ~fs.store[path].present THEN [exc |-> "BackupError", fs |-> fs]
    ELSE [exc |-> "none",
          fs |-> Fs([n \in Names |-> NoFile], fs.latest, fs.live)]

\* delete_backup(path)
delete_backup(path, fs, unlinkOk) ==
    IF ~fs.store[path].present THEN [exc |-> "BackupError", fs |-> fs]
    ELSE IF ~unlinkOk THEN [exc |-> "BackupError", fs |-> fs]
    ELSE [exc |-> "none",
          fs |-> Fs([fs.store EXCEPT ![path] = NoFile], fs.latest, fs.live)]

\* one create_backup call
CallCreateBackup ==
    \E validate \in BOOLEAN, env \in CreateEnvs :
        LET c == create_backup(validate, Fs(store, latest, live), clock, keyMarker, env)
        IN  /\ bcall = NoBCall
            /\ store' = c.fs.store
            /\ latest' = c.fs.latest
            /\ live' = c.fs.live
            /\ bcall' = [op |-> "create", path |-> c.ret, validate |-> validate,
                         safety |-> FALSE, dry |-> FALSE, exc |-> c.exc,
                         ret |-> (IF c.exc = "none" THEN c.ret ELSE NoPath),
                         events |-> c.events, firstRc |-> c.firstRc,
                         secondRc |-> c.secondRc, unlinkFailed |-> c.unlinkFailed,
                         fsFault |-> env.fsFault, roundTrip |-> env.valid,
                         aiExisted |-> (live # NoTree)]
            /\ UNCHANGED <<clock, keyMarker, cvars, pvars, svars, rvars, dvars, fcall>>

\* one restore_backup call
CallRestoreBackup ==
    \E path \in Names, safety \in BOOLEAN, dry \in BOOLEAN, env \in RestoreEnvs :
      \E senv \in (IF safety /\ ~dry /\ live # NoTree /\ validate_backup(store, path)
                   THEN CreateEnvs ELSE {NoCreateEnv}) :
        LET r == restore_backup(path, safety, dry, Fs(store, latest, live), clock,
                               keyMarker, env, senv)
        IN  /\ bcall = NoBCall
            /\ store' = r.fs.store
            /\ latest' = r.fs.latest
            /\ live' = r.fs.live
            /\ bcall' = [op |-> "restore", path |-> path, validate |-> FALSE,
                         safety |-> safety, dry |-> dry, exc |-> r.exc, ret |-> NoPath,
                         events |-> r.events, firstRc |-> r.firstRc,
                         secondRc |-> r.secondRc, unlinkFailed |-> FALSE,
                         fsFault |-> "none", roundTrip |-> FALSE,
                         aiExisted |-> (live # NoTree)]
            /\ UNCHANGED <<clock, keyMarker, cvars, pvars, svars, rvars, dvars, fcall>>

\* one delete_backup call
CallDeleteBackup ==
    \E path \in Names, unlinkOk \in BOOLEAN :
        LET d == delete_backup(path, Fs(store, latest, live), unlinkOk)
        IN  /\ bcall = NoBCall
            /\ store' = d.fs.store
            /\ bcall' = [NoBCall EXCEPT !.op = "delete", !.path = path, !.exc = d.exc,
                                        !.aiExisted = (live # NoTree)]
            /\ UNCHANGED <<latest, live, clock, keyMarker, cvars, pvars, svars, rvars, dvars, fcall>>

\* a second passes
Tick ==
    /\ bcall = NoBCall
    /\ clock < MaxClock
    /\ clock' = clock + 1
    /\ UNCHANGED <<live, store, latest, keyMarker, bcall, cvars, pvars, svars, rvars, dvars, fcall>>

\* the agents (or the operator) change the live tree, or remove it
ModifyLive ==
    /\ bcall = NoBCall
    /\ \E t \in Trees \cup {NoTree} : t # live /\ live' = t
    /\ UNCHANGED <<clock, store, latest, keyMarker, bcall, cvars, pvars, svars, rvars, dvars, fcall>>

\* the caller takes the outcome; the manager is ready for the next call
BackupReturn ==
    /\ bcall # NoBCall
    /\ bcall' = NoBCall
    /\ UNCHANGED <<clock, live, store, latest, keyMarker, cvars, pvars, svars, rvars, dvars, fcall>>

\* the containers at rest (the backup specification keeps them so)
ContainersIdle ==
    /\ cexists = [a \in agents |-> FALSE]
    /\ crunning = [a \in agents |-> FALSE]
    /\ cpod = "absent"
    /\ ccall = NoCall

\* the store holds at most one artifact made before the modelled time span; the
\* latest pointer is only ever written by create_backup
BackupInit ==
    /\ clock = 1
    /\ live \in Trees \cup {NoTree}
    /\ \E a \in Artifacts \cup {NoFile} :
           /\ store = [n \in Names |-> IF n = 0 THEN a ELSE NoFile]
    /\ latest = NoPath
    /\ keyMarker \in BOOLEAN
    /\ bcall = NoBCall
    /\ ContainersIdle
    /\ PipelineIdle
    /\ SecretsIdle
    /\ RegistryIdle
    /\ DetectIdle
    /\ FunctionsIdle

BackupNext ==
    \/ CallCreateBackup
    \/ CallRestoreBackup
    \/ CallDeleteBackup
    \/ BackupReturn
    \/ Tick
    \/ ModifyLive

BackupSpec == BackupInit /\ [][BackupNext]_vars

(***************************************************************************)
(* The two-stage pipelines: processes                                      *)
(*   create_backup:  stage 1 = tar czf -,  stage 2 = age -r ... -o path     *)
(*   restore_backup: stage 1 = age -d,     stage 2 = tar xzf - -C /         *)
(* In both the parent closes its copy of stage 1's stdout, calls            *)
(* communicate() on stage 2 and only then reads stage 1's stderr.           *)
(***************************************************************************)

\* stage 1 writes a unit of its stdout into the pipe to stage 2
Stage1WriteData ==
    /\ stage1.state = "running" /\ stage1.data > 0
    /\ stage2.state = "running"
    /\ pipes.data < PipeCap
    /\ stage1' = [stage1 EXCEPT !.data = @ - 1]
    /\ pipes' = [pipes EXCEPT !.data = @ + 1]
    /\ UNCHANGED <<pipeline, ppc, stage2, cvars, bvars, svars, rvars, dvars, fcall>>

\* stage 1 writes a unit of diagnostics to its stderr pipe (stderr=PIPE)
Stage1WriteErr ==
    /\ stage1.state = "running" /\ stage1.err > 0
    /\ pipes.err1 < PipeCap
    /\ stage1' = [stage1 EXCEPT !.err = @ - 1]
    /\ pipes' = [pipes EXCEPT !.err1 = @ + 1]
    /\ UNCHANGED <<pipeline, ppc, stage2, cvars, bvars, svars, rvars, dvars, fcall>>

\* stage 1 has written everything and exits, closing its stdout and stderr (a
\* stage exits once its output is written and, for stage 2, its input is at
\* end-of-file)
Stage1Exit ==
    /\ stage1.state = "running" /\ stage1.data = 0 /\ stage1.err = 0
    /\ stage1' = [stage1 EXCEPT !.state = "exited"]
    /\ UNCHANGED <<pipeline, ppc, stage2, pipes, cvars, bvars, svars, rvars, dvars, fcall>>

\* stage 2 reads a unit from its stdin (stdin=stage 1's stdout)
Stage2Read ==
    /\ stage2.state = "running"
    /\ pipes.data > 0
    /\ pipes' = [pipes EXCEPT !.data = @ - 1]
    /\ UNCHANGED <<pipeline, ppc, stage1, stage2, cvars, bvars, svars, rvars, dvars, fcall>>

\* stage 2 writes a unit to its stdout pipe (stdout=PIPE)
Stage2WriteOut ==
    /\ stage2.state = "running" /\ stage2.out > 0
    /\ pipes.out2 < PipeCap
    /\ stage2' = [stage2 EXCEPT !.out = @ - 1]
    /\ pipes' = [pipes EXCEPT !.out2 = @ + 1]
    /\ UNCHANGED <<pipeline, ppc, stage1, cvars, bvars, svars, rvars, dvars, fcall>>

\* stage 2 writes a unit to its stderr pipe (stderr=PIPE)
Stage2WriteErr ==
    /\ stage2.state = "running" /\ stage2.err > 0
    /\ pipes.err2 < PipeCap
    /\ stage2' = [stage2 EXCEPT !.err = @ - 1]
    /\ pipes' = [pipes EXCEPT !.err2 = @ + 1]
    /\ UNCHANGED <<pipeline, ppc, stage1, cvars, bvars, svars, rvars, dvars, fcall>>

\* stage 2 has read end-of-file on its stdin, has written everything and exits
Stage2Exit ==
    /\ stage2.state = "running" /\ stage2.out = 0 /\ stage2.err = 0
    /\ stage1.state = "exited" /\ pipes.data = 0
    /\ stage2' = [stage2 EXCEPT !.state = "exited"]
    /\ UNCHANGED <<pipeline, ppc, stage1, pipes, cvars, bvars, svars, rvars, dvars, fcall>>

\* communicate() on stage 2: the parent reads what stage 2 wrote to stdout
ParentReadOut2 ==
    /\ ppc = "communicate" /\ pipes.out2 > 0
    /\ pipes' = [pipes EXCEPT !.out2 = @ - 1]
    /\ UNCHANGED <<pipeline, ppc, stage1, stage2, cvars, bvars, svars, rvars, dvars, fcall>>

\* communicate() on stage 2: the parent reads what stage 2 wrote to stderr
ParentReadErr2 ==
    /\ ppc = "communicate" /\ pipes.err2 > 0
    /\ pipes' = [pipes EXCEPT !.err2 = @ - 1]
    /\ UNCHANGED <<pipeline, ppc, stage1, stage2, cvars, bvars, svars, rvars, dvars, fcall>>

\* communicate() returns: stage 2's pipes are at end-of-file and stage 2 is reaped
ParentCommunicateReturns ==
    /\ ppc = "communicate"
    /\ stage2.state = "exited" /\ pipes.out2 = 0 /\ pipes.err2 = 0
    /\ ppc' = "read_stderr1"
    /\ UNCHANGED <<pipeline, stage1, stage2, pipes, cvars, bvars, svars, rvars, dvars, fcall>>

\* stage1.stderr.read(), after communicate() has returned: the parent reads what
\* stage 1 wrote to stderr
ParentReadErr1 ==
    /\ ppc = "read_stderr1" /\ pipes.err1 > 0
    /\ pipes' = [pipes EXCEPT !.err1 = @ - 1]
    /\ UNCHANGED <<pipeline, ppc, stage1, stage2, cvars, bvars, svars, rvars, dvars, fcall>>

\* stage1.stderr.read() returns at end-of-file
ParentReadErr1Returns ==
    /\ ppc = "read_stderr1"
    /\ stage1.state = "exited" /\ pipes.err1 = 0
    /\ ppc' = "done"
    /\ UNCHANGED <<pipeline, stage1, stage2, pipes, cvars, bvars, svars, rvars, dvars, fcall>>

\* both stages have been started with the amounts of output they will produce
PipelineInit ==
    /\ pipeline \in {"create", "restore"}
    /\ ppc = "communicate"
    /\ stage1 \in [state : {"running"}, data : 0..MaxOut, err : 0..MaxOut]
    /\ stage2 \in [state : {"running"}, out : 0..MaxOut, err : 0..MaxOut]
    /\ pipes = [data |-> 0, err1 |-> 0, out2 |-> 0, err2 |-> 0]
    /\ ContainersIdle
    /\ BackupIdle
    /\ SecretsIdle
    /\ RegistryIdle
    /\ DetectIdle
    /\ FunctionsIdle

\* a step of one of the three processes
PipelineNext ==
    \/ Stage1WriteData
    \/ Stage1WriteErr
    \/ Stage1Exit
    \/ Stage2Read
    \/ Stage2WriteOut
    \/ Stage2WriteErr
    \/ Stage2Exit
    \/ ParentReadOut2
    \/ ParentReadErr2
    \/ ParentCommunicateReturns
    \/ ParentReadErr1
    \/ ParentReadErr1Returns

PipelineSpec == PipelineInit /\ [][PipelineNext]_vars

(***************************************************************************)
(* SecretsManager: operations                                              *)
(***************************************************************************)

\* the environment of the invoking process: SUDO_USER and USER ("" when unset),
\* os.getuid(), os.getgid() and the umask; in turn: sudo run by alice, sudo with a
\* SUDO_USER that has no passwd entry, alice without sudo, root without sudo
Idents ==
    {[sudo_user |-> su, user |-> u, uid |-> i, gid |-> g, umask |-> m] :
        su \in {"alice", "ghost", ""}, u \in {"alice", "root"}, i \in {0, 1000},
        g \in {0, 100}, m \in {18, 63}}

\* the invocations that occur: an elevated process runs as root with USER=root
ProcessIdents ==
    {id \in Idents :
        \/ id.sudo_user # "" /\ id.user = "root" /\ id.uid = 0 /\ id.gid = 0
        \/ id.sudo_user = "" /\ id.user = "alice" /\ id.uid = 1000 /\ id.gid = 100
        \/ id.sudo_user = "" /\ id.user = "root" /\ id.uid = 0 /\ id.gid = 0}

\* the user database (pwd.getpwnam) for the names other than root
passwd == [u \in {"alice"} |-> [pw_uid |-> 1000, pw_gid |-> 100]]

\* os.getenv("SUDO_USER") or os.getenv("USER") or "root"
get_actual_user(id) ==
    IF id.sudo_user # "" THEN id.sudo_user
    ELSE IF id.user # "" THEN id.user
    ELSE "root"

\* get_user_uid: the passwd uid of the actual user; os.getuid() for root and on KeyError
get_user_uid(id) ==
    LET user == get_actual_user(id)
    IN  IF user # "root" /\ user \in DOMAIN passwd THEN passwd[user].pw_uid ELSE id.uid

\* get_user_gid: the passwd gid of the actual user; os.getgid() for root and on KeyError
get_user_gid(id) ==
    LET user == get_actual_user(id)
    IN  IF user # "root" /\ user \in DOMAIN passwd THEN passwd[user].pw_gid ELSE id.gid

\* key.startswith("sk-ant-") and len(key) > 50
validate_claude_key(key) == key.prefix = "sk-ant-" /\ key.len > 50

\* key.startswith("xai-") and len(key) > 30
validate_grok_key(key) == key.prefix = "xai-" /\ key.len > 30

\* key.startswith("AIza") and len(key) > 30
validate_gemini_key(key) == key.prefix = "AIza" /\ key.len > 30

\* SecretValidator.validate: "True", "False", or "ValueError" for an unknown agent
validate(agent, key) ==
    IF agent = "claude" THEN (IF validate_claude_key(key) THEN "True" ELSE "False")
    ELSE IF agent = "grok" THEN (IF validate_grok_key(key) THEN "True" ELSE "False")
    ELSE IF agent = "gemini" THEN (IF validate_gemini_key(key) THEN "True" ELSE "False")
    ELSE "ValueError"

\* len(text.strip())
stripped_len(p) == IF p.blank THEN 0 ELSE p.len

\* the key-material check of SecretsManager.__init__
SecretsManager_init(kf) ==
    IF ~kf.exists THEN Exc("SecurityError", <<"Age key not found: ", "~/.age-key.txt">>)
    ELSE IF BitAnd(kf.mode, 63) # 0
    THEN Exc("SecurityError", <<"Age key has insecure permissions: ", kf.mode>>)
    ELSE NoExc

\* the key-material check of SecureBackupManager.__init__
SecureBackupManager_init(kf) ==
    IF ~kf.exists THEN Exc("SecurityError", <<"Age key not found: ", "~/.age-key.txt">>)
    ELSE IF BitAnd(kf.mode, 63) # 0
    THEN Exc("SecurityError", <<"Age key has insecure permissions: ", kf.mode>>)
    ELSE NoExc

\* get_public_key: open() raises for a missing file; SecurityError without the marker
get_public_key(kf) ==
    IF ~kf.exists THEN Exc("FileNotFoundError", <<"~/.age-key.txt">>)
    ELSE IF ~kf.marker THEN Exc("SecurityError", <<"Public key not found in age key file">>)
    ELSE NoExc

\* self.ai_dir / agent / "context" / ".secrets.age"
secret_file(agent) == <<"/ai", agent, "context", ".secrets.age">>

\* secret_file.exists(): only the three agents' paths hold files
secret_exists(files, agent) == agent \in DOMAIN files /\ files[agent].exists

\* logger.error(f"Invalid secret format for {agent}")
invalid_format_log(agent, secret) == <<"ERROR", "Invalid secret format for ", agent>>

\* what age -o leaves at the secret path once it has opened its output: a new file
\* gets mode 0o666 & ~umask and the process's ids, an existing one keeps its own
age_output(file, secret, id) ==
    IF file.exists
    THEN [file EXCEPT !.plain = secret, !.intact = FALSE]
    ELSE [exists |-> TRUE, mode |-> 438 - BitAnd(438, id.umask), uid |-> id.uid,
          gid |-> id.gid, plain |-> secret, intact |-> FALSE]

\* the part of a SecretsManager call that the caller or the system can observe,
\* and the filesystem after it
SOut(pc, exc, ret, logs, cmds, probed, mkdir, files, dirs) ==
    [pc |-> pc, exc |-> exc, ret |-> ret, logs |-> logs, cmds |-> cmds,
     probed |-> probed, mkdir |-> mkdir, files |-> files, dirs |-> dirs]

\* encrypt_secret with the agent check left out
encrypt_secret_unchecked(agent, secret, kf, files, dirs, id, wrote) ==
    LET path == secret_file(agent)
    IN  SOut("age", NoExc, "None", <<>>, <<<<"age", "-r", "pubkey", "-o", path>>>>,
             <<path>>, TRUE, files, dirs)

\* encrypt_secret, lines 92-116: up to the point where age runs and has (or has
\* not) opened its output file
encrypt_secret(agent, secret, kf, files, dirs, id, wrote) ==
    IF agent \notin {"claude", "grok", "gemini"}
    THEN SOut("done", Exc("ValueError", <<"Unknown agent: ", agent>>), "None", <<>>,
              <<>>, <<>>, FALSE, files, dirs)
    ELSE IF validate(agent, secret) # "True"
    THEN SOut("done", Exc("SecurityError", <<"Invalid ", agent, " API key format">>),
              "None", <<invalid_format_log(agent, secret)>>, <<>>, <<>>, FALSE,
              files, dirs)
    ELSE
      LET path == secret_file(agent)
          dirs1 == [dirs EXCEPT ![agent] = TRUE]
          key == get_public_key(kf)
      IN  IF key.type # "none"
          THEN SOut("done", key, "None", <<>>, <<>>, <<path>>, TRUE, files, dirs1)
          ELSE SOut("age", NoExc, "None", <<>>,
                    <<<<"age", "-r", "pubkey", "-o", path>>>>, <<path>>, TRUE,
                    IF wrote
                    THEN [files EXCEPT ![agent] = age_output(files[agent], secret, id)]
                    ELSE files,
                    dirs1)

\* encrypt_secret, lines 117-129: age has exited with status rc
encrypt_secret_end(agent, logs, files, id, rc) ==
    IF rc # 0
    THEN [exc |-> Exc("SecurityError", <<"Failed to encrypt ", agent, " secret">>),
          logs |-> Append(logs, <<"ERROR", "Encryption failed for ", agent>>),
          files |-> files]
    ELSE [exc |-> NoExc,
          logs |-> Append(logs, <<"INFO", "Successfully encrypted secret for ", agent>>),
          files |-> [files EXCEPT ![agent] =
                        [@ EXCEPT !.intact = TRUE, !.mode = 384,
                                  !.uid = get_user_uid(id), !.gid = get_user_gid(id)]]]

\* verify_secret_exists
verify_secret_exists(agent, files) ==
    [ret |-> Bool(secret_exists(files, agent)), probed |-> <<secret_file(agent)>>]

\* verify_secret_permissions: st_mode & 0o777 == 0o600
verify_secret_permissions(agent, files) ==
    [ret |-> IF ~secret_exists(files, agent) THEN "False"
             ELSE Bool(BitAnd(files[agent].mode, 511) = 384),
     probed |-> <<secret_file(agent)>>]

\* test_decryption with the plaintext returned instead of the boolean
test_decryption_returns_plaintext(agent, files, rc) ==
    IF ~secret_exists(files, agent)
    THEN [ret |-> "False", cmds |-> <<>>, probed |-> <<secret_file(agent)>>]
    ELSE [ret |-> IF rc # 0 THEN "False" ELSE files[agent].plain.prefix,
          cmds |-> <<<<"age", "-d", "-i", "~/.age-key.txt", secret_file(agent)>>>>,
          probed |-> <<secret_file(agent)>>]

\* test_decryption: age -d exits with status rc; True iff the output is not blank
test_decryption(agent, files, rc) ==
    IF ~secret_exists(files, agent)
    THEN [ret |-> "False", cmds |-> <<>>, probed |-> <<secret_file(agent)>>]
    ELSE [ret |-> IF rc # 0 THEN "False"
                  ELSE Bool(stripped_len(files[agent].plain) > 0),
          cmds |-> <<<<"age", "-d", "-i", "~/.age-key.txt", secret_file(agent)>>>>,
          probed |-> <<secret_file(agent)>>]

\* SecretsManager()
ConstructSecretsManager ==
    LET e == SecretsManager_init(keyFile)
    IN  /\ scall = NoSCall
        /\ sm' = (sm \/ e.type = "none")
        /\ scall' = [NoSCall EXCEPT !.op = "SecretsManager", !.pc = "done", !.exc = e]
        /\ UNCHANGED <<keyFile, sfiles, sdirs, ident, cvars, bvars, pvars, rvars, dvars, fcall>>

\* SecureBackupManager()
ConstructSecureBackupManager ==
    LET e == SecureBackupManager_init(keyFile)
    IN  /\ scall = NoSCall
        /\ scall' = [NoSCall EXCEPT !.op = "SecureBackupManager", !.pc = "done", !.exc = e]
        /\ UNCHANGED <<keyFile, sfiles, sdirs, sm, ident, cvars, bvars, pvars, rvars, dvars, fcall>>

\* encrypt_secret(agent, secret) is called and runs until age is running (or until
\* it raises); hangs: the age process will never exit
CallEncryptSecret ==
    \E agent \in AgentInputs, secret \in Plaintexts, wrote \in BOOLEAN,
       hangs \in BOOLEAN :
        LET o == encrypt_secret(agent, secret, keyFile, sfiles, sdirs, ident, wrote)
        IN  /\ scall = NoSCall
            /\ sm
            /\ (o.pc = "done") => (~wrote /\ ~hangs)
            /\ sfiles' = o.files
            /\ sdirs' = o.dirs
            /\ scall' = [op |-> "encrypt_secret", agent |-> agent, pc |-> o.pc,
                         exc |-> o.exc, ret |-> o.ret, logs |-> o.logs,
                         cmds |-> o.cmds, probed |-> o.probed, mkdir |-> o.mkdir,
                         hangs |-> hangs, valid |-> validate(agent, secret),
                         wrote |-> wrote, rc |-> NoneRc]
            /\ UNCHANGED <<keyFile, sm, ident, cvars, bvars, pvars, rvars, dvars, fcall>>

\* the age process of encrypt_secret exits and encrypt_secret runs to its end
EncryptSecretAgeExits ==
    \E rc \in {0, 1} :
        LET o == encrypt_secret_end(scall.agent, scall.logs, sfiles, ident, rc)
        IN  /\ scall.op = "encrypt_secret" /\ scall.pc = "age"
            /\ ~scall.hangs
            /\ rc = 0 => scall.wrote
            /\ sfiles' = o.files
            /\ scall' = [scall EXCEPT !.pc = "done", !.exc = o.exc, !.logs = o.logs,
                                       !.rc = rc]
            /\ UNCHANGED <<keyFile, sdirs, sm, ident, cvars, bvars, pvars, rvars, dvars, fcall>>

\* verify_secret_exists(agent)
CallVerifySecretExists ==
    \E agent \in AgentInputs :
        LET o == verify_secret_exists(agent, sfiles)
        IN  /\ scall = NoSCall
            /\ sm
            /\ scall' = [NoSCall EXCEPT !.op = "verify_secret_exists", !.agent = agent,
                                        !.pc = "done", !.ret = o.ret,
                                        !.probed = o.probed]
            /\ UNCHANGED <<keyFile, sfiles, sdirs, sm, ident, cvars, bvars, pvars, rvars, dvars, fcall>>

\* verify_secret_permissions(agent)
CallVerifySecretPermissions ==
    \E agent \in AgentInputs :
        LET o == verify_secret_permissions(agent, sfiles)
        IN  /\ scall = NoSCall
            /\ sm
            /\ scall' = [NoSCall EXCEPT !.op = "verify_secret_permissions",
                                        !.agent = agent, !.pc = "done", !.ret = o.ret,
                                        !.probed = o.probed]
            /\ UNCHANGED <<keyFile, sfiles, sdirs, sm, ident, cvars, bvars, pvars, rvars, dvars, fcall>>

\* test_decryption(agent); age -d can exit 0 only on an intact file with the key
\* file in place
CallTestDecryption ==
    \E agent \in AgentInputs, rc \in {0, 1} :
        LET o == test_decryption(agent, sfiles, rc)
        IN  /\ scall = NoSCall
            /\ sm
            /\ (secret_exists(sfiles, agent) /\ rc = 0)
                   => (sfiles[agent].intact /\ keyFile.exists)
            /\ ~secret_exists(sfiles, agent) => rc = 1
            /\ scall' = [NoSCall EXCEPT !.op = "test_decryption", !.agent = agent,
                                        !.pc = "done", !.ret = o.ret, !.cmds = o.cmds,
                                        !.probed = o.probed,
                                        !.rc = (IF o.cmds = <<>> THEN NoneRc ELSE rc)]
            /\ UNCHANGED <<keyFile, sfiles, sdirs, sm, ident, cvars, bvars, pvars, rvars, dvars, fcall>>

\* the operator (or anything else on the host) changes the key-material file
KeyFileChange ==
    /\ scall = NoSCall
    /\ keyFile' \in KeyFiles \ {keyFile}
    /\ UNCHANGED <<sfiles, sdirs, sm, ident, scall, cvars, bvars, pvars, rvars, dvars, fcall>>

\* the caller takes the outcome; the manager is ready for the next call
SecretsReturn ==
    /\ scall.pc = "done"
    /\ scall' = NoSCall
    /\ UNCHANGED <<keyFile, sfiles, sdirs, sm, ident, cvars, bvars, pvars, rvars, dvars, fcall>>

\* the key file is in any state; claude may have a secret file, put there by an
\* earlier deployment or a restore (any content, owner-only mode); the commands are
\* run by one kind of process
SecretsInit ==
    /\ keyFile \in KeyFiles
    /\ \E p \in {q \in Plaintexts : q.prefix \in {"", "sk-ant-"} /\ q.tail = "a"
                                      /\ q.len \in {0, 31, 51}},
          there \in BOOLEAN :
           /\ sfiles = [b \in agents |->
                          IF there /\ b = "claude"
                          THEN [exists |-> TRUE, mode |-> 384, uid |-> 1000,
                                gid |-> 100, plain |-> p, intact |-> TRUE]
                          ELSE NoSecretFile]
           /\ sdirs = [b \in agents |-> there /\ b = "claude"]
    /\ ident \in ProcessIdents
    /\ sm = FALSE
    /\ scall = NoSCall
    /\ ContainersIdle
    /\ BackupIdle
    /\ PipelineIdle
    /\ RegistryIdle
    /\ DetectIdle
    /\ FunctionsIdle

SecretsNext ==
    \/ ConstructSecretsManager
    \/ ConstructSecureBackupManager
    \/ CallEncryptSecret
    \/ EncryptSecretAgeExits
    \/ CallVerifySecretExists
    \/ CallVerifySecretPermissions
    \/ CallTestDecryption
    \/ KeyFileChange
    \/ SecretsReturn

SecretsSpec == SecretsInit /\ [][SecretsNext]_vars

(***************************************************************************)
(* ProjectManager: operations                                              *)
(***************************************************************************)

\* the other process
Other(p) == CHOOSE q \in Procs : q # p

\* the element e occurs in the sequence s
InSeq(s, e) == \E i \in 1..Len(s) : s[i] = e

\* _read_projects, the read: json.load(f), and {"projects": {}} when the text is
\* empty or is no JSON document (JSONDecodeError)
read_projects(file) == IF file.kind = "json" THEN file.data ELSE EmptyRegistry

\* _write_projects, the write: the buffered text of data reaches the file at
\* offset 0 when f is closed; bytes of a longer text written meanwhile stay behind it
write_projects(file, data) ==
    IF Size(data) >= file.size THEN JsonFile(data)
    ELSE [kind |-> "torn", data |-> EmptyRegistry, size |-> file.size]

\* create_project, lines 81-89: the registry to write
create_project(data, name, now) ==
    [data EXCEPT ![name] = [present |-> TRUE, conversations |-> <<>>,
                            last_activity |-> now]]

\* update_activity, line 136
update_activity(data, name, now) ==
    [data EXCEPT ![name].last_activity = now]

\* add_conversation, lines 151-152
add_conversation(data, name, conv, now) ==
    [data EXCEPT ![name].conversations = Append(@, conv),
                 ![name].last_activity = now]

\* add_conversation appending whatever it is given
Writes_without_membership_test(op, data, name, conv) ==
    CASE op = "create_project" -> ~data[name].present
      [] op = "update_activity" -> data[name].present
      [] op = "add_conversation" -> data[name].present

\* the method writes the registry back (it returns without writing otherwise)
Writes(op, data, name, conv) ==
    CASE op = "create_project" -> ~data[name].present
      [] op = "update_activity" -> data[name].present
      [] op = "add_conversation" ->
            data[name].present /\ ~InSeq(data[name].conversations, conv)

\* the registry the method writes back
Modified(op, data, name, conv, now) ==
    CASE op = "create_project" -> create_project(data, name, now)
      [] op = "update_activity" -> update_activity(data, name, now)
      [] op = "add_conversation" -> add_conversation(data, name, conv, now)

\* a process that has returned from op: create_project returns True after writing
\* and False otherwise, update_activity and add_conversation return None
Returned(op, wrote) ==
    [IdleProc EXCEPT !.ret = IF op = "create_project" THEN Bool(wrote) ELSE "None"]

\* the number of processes inside a call
Active == Cardinality({p \in Procs : rprocs[p].pc # "idle"})

\* a process calls create_project, update_activity or add_conversation; its
\* _read_projects opens projects.json for reading
BeginCall(p) ==
    /\ rprocs[p].pc = "idle"
    /\ rnow + Active < MaxNow
    /\ \E op \in {"create_project", "update_activity", "add_conversation"},
          name \in ProjectNames, conv \in ConversationNames :
           /\ (op # "add_conversation") => conv = "conv1"
           /\ rprocs' = [rprocs EXCEPT ![p] =
                             [pc |-> "read_lock", op |-> op, name |-> name,
                              conv |-> IF op = "add_conversation" THEN conv ELSE "-",
                              data |-> EmptyRegistry, at |-> 0, ret |-> "-"]]
    /\ UNCHANGED <<rfile, rlocks, rnow, rdone, cvars, bvars, pvars, svars, dvars, fcall>>

\* flock(LOCK_SH): granted while the other process holds no exclusive lock
ReadLock(p) ==
    /\ rprocs[p].pc = "read_lock"
    /\ rlocks[Other(p)] # "ex"
    /\ rlocks' = [rlocks EXCEPT ![p] = "sh"]
    /\ rprocs' = [rprocs EXCEPT ![p].pc = "read_load"]
    /\ UNCHANGED <<rfile, rnow, rdone, cvars, bvars, pvars, svars, dvars, fcall>>

\* json.load(f)
ReadLoad(p) ==
    /\ rprocs[p].pc = "read_load"
    /\ rprocs' = [rprocs EXCEPT ![p].pc = "read_unlock",
                                ![p].data = read_projects(rfile)]
    /\ UNCHANGED <<rfile, rlocks, rnow, rdone, cvars, bvars, pvars, svars, dvars, fcall>>

\* flock(LOCK_UN) in the finally clause; _read_projects returns
ReadUnlock(p) ==
    /\ rprocs[p].pc = "read_unlock"
    /\ rlocks' = [rlocks EXCEPT ![p] = "none"]
    /\ rprocs' = [rprocs EXCEPT ![p].pc = "modify"]
    /\ UNCHANGED <<rfile, rnow, rdone, cvars, bvars, pvars, svars, dvars, fcall>>

\* the method's own lines between _read_projects and _write_projects: it returns,
\* or changes its copy of the registry, stamped with datetime.now()
Modify(p) ==
    /\ rprocs[p].pc = "modify"
    /\ LET c == rprocs[p]
       IN  IF Writes(c.op, c.data, c.name, c.conv)
           THEN /\ rprocs' = [rprocs EXCEPT
                                 ![p].pc = "write_open",
                                 ![p].data = Modified(c.op, c.data, c.name, c.conv, rnow + 1),
                                 ![p].at = rnow + 1]
                /\ rnow' = rnow + 1
           ELSE /\ rprocs' = [rprocs EXCEPT ![p] = Returned(c.op, FALSE)]
                /\ UNCHANGED rnow
    /\ UNCHANGED <<rfile, rlocks, rdone, cvars, bvars, pvars, svars, dvars, fcall>>

\* open(self.projects_file, 'w'): truncates the file, before any lock is taken
WriteOpen(p) ==
    /\ rprocs[p].pc = "write_open"
    /\ rfile' = TruncatedFile
    /\ rprocs' = [rprocs EXCEPT ![p].pc = "write_lock"]
    /\ UNCHANGED <<rlocks, rnow, rdone, cvars, bvars, pvars, svars, dvars, fcall>>

\* flock(LOCK_EX): granted while the other process holds no lock
WriteLock(p) ==
    /\ rprocs[p].pc = "write_lock"
    /\ rlocks[Other(p)] = "none"
    /\ rlocks' = [rlocks EXCEPT ![p] = "ex"]
    /\ rprocs' = [rprocs EXCEPT ![p].pc = "write_dump"]
    /\ UNCHANGED <<rfile, rnow, rdone, cvars, bvars, pvars, svars, dvars, fcall>>

\* json.dump(data, f, indent=2) fills f's buffer (the text is shorter than the
\* buffer), then flock(LOCK_UN) in the finally clause
WriteDumpUnlock(p) ==
    /\ rprocs[p].pc = "write_dump"
    /\ rlocks' = [rlocks EXCEPT ![p] = "none"]
    /\ rprocs' = [rprocs EXCEPT ![p].pc = "write_close"]
    /\ UNCHANGED <<rfile, rnow, rdone, cvars, bvars, pvars, svars, dvars, fcall>>

\* the with block closes f: the buffer is written to the file; the method returns
WriteClose(p) ==
    /\ rprocs[p].pc = "write_close"
    /\ rfile' = write_projects(rfile, rprocs[p].data)
    /\ rdone' = rdone \cup {[op |-> rprocs[p].op, name |-> rprocs[p].name,
                             conv |-> rprocs[p].conv, at |-> rprocs[p].at]}
    /\ rprocs' = [rprocs EXCEPT ![p] = Returned(rprocs[p].op, TRUE)]
    /\ UNCHANGED <<rlocks, rnow, cvars, bvars, pvars, svars, dvars, fcall>>

\* projects.json as _ensure_projects_file or earlier calls left it
RegistryInit ==
    /\ rfile \in {JsonFile(EmptyRegistry),
                  JsonFile(create_project(EmptyRegistry, "alpha", 0))}
    /\ rlocks = [p \in Procs |-> "none"]
    /\ rprocs = [p \in Procs |-> IdleProc]
    /\ rnow = 0
    /\ rdone = {}
    /\ ContainersIdle
    /\ BackupIdle
    /\ PipelineIdle
    /\ SecretsIdle
    /\ DetectIdle
    /\ FunctionsIdle

RegistryNext ==
    \E p \in Procs :
        \/ BeginCall(p)
        \/ ReadLock(p)
        \/ ReadLoad(p)
        \/ ReadUnlock(p)
        \/ Modify(p)
        \/ WriteOpen(p)
        \/ WriteLock(p)
        \/ WriteDumpUnlock(p)
        \/ WriteClose(p)

RegistrySpec == RegistryInit /\ [][RegistryNext]_vars

\* one process alone calls the ProjectManager
SingleProc == "proc1"

SingleNext ==
    \/ BeginCall(SingleProc)
    \/ ReadLock(SingleProc)
    \/ ReadLoad(SingleProc)
    \/ ReadUnlock(SingleProc)
    \/ Modify(SingleProc)
    \/ WriteOpen(SingleProc)
    \/ WriteLock(SingleProc)
    \/ WriteDumpUnlock(SingleProc)
    \/ WriteClose(SingleProc)

SingleSpec == RegistryInit /\ [][SingleNext]_vars

(***************************************************************************)
(* DeploymentState                                                         *)
(***************************************************************************)

\* all(values) of Python, over the values of a mapping taken key by key
RECURSIVE all(_, _)
all(mapping, keys) ==
    IF keys = {} THEN TRUE
    ELSE LET k == CHOOSE x \in keys : TRUE
         IN  mapping[k] /\ all(mapping, keys \ {k})

\* any(values) of Python
RECURSIVE any(_, _)
any(mapping, keys) ==
    IF keys = {} THEN FALSE
    ELSE LET k == CHOOSE x \in keys : TRUE
         IN  mapping[k] \/ any(mapping, keys \ {k})

\* DeploymentState.is_fresh_install
is_fresh_install(st) == ~st.containers_running /\ ~st.history_dirs_exist

\* needs_secrets computed as "not any(...)"
needs_secrets_not_any(st) ==
    ~any(st.secrets_configured, DOMAIN st.secrets_configured)

\* DeploymentState.needs_secrets
needs_secrets(st) == ~all(st.secrets_configured, DOMAIN st.secrets_configured)

\* is_fully_deployed without the runtime marker
is_fully_deployed_without_package(st) ==
    /\ st.containers_running
    /\ st.age_key_exists
    /\ all(st.secrets_configured, DOMAIN st.secrets_configured)

\* DeploymentState.is_fully_deployed
is_fully_deployed(st) ==
    /\ st.containers_running
    /\ st.age_key_exists
    /\ all(st.secrets_configured, DOMAIN st.secrets_configured)
    /\ st.python_package_installed

\* the mappings a caller passes as secrets_configured: one entry per agent, or fewer
SecretMappings ==
    [agents -> BOOLEAN] \cup {[a \in {} |-> FALSE], [a \in {"claude"} |-> TRUE],
                              [a \in {"claude", "grok"} |-> FALSE]}

\* DeploymentState(...): the dataclass constructor
DeploymentState(cr, ak, sc, hd, pp) ==
    [made |-> TRUE, containers_running |-> cr, age_key_exists |-> ak,
     secrets_configured |-> sc, history_dirs_exist |-> hd,
     python_package_installed |-> pp]

\* the fields of the dataclass
StateFields ==
    {"containers_running", "age_key_exists", "secrets_configured", "history_dirs_exist",
     "python_package_installed"}

\* a caller constructs a DeploymentState
Construct ==
    \E cr \in BOOLEAN, ak \in BOOLEAN, sc \in SecretMappings, hd \in BOOLEAN,
       pp \in BOOLEAN :
        /\ dsnap' = DeploymentState(cr, ak, sc, hd, pp)
        /\ dorig' = dsnap'
        /\ dprops' = NoProps
        /\ UNCHANGED <<dhistory, dpackage, dengine, dsearch, dcall, cvars, bvars, pvars,
                       svars, rvars, fcall>>

\* the holder reads the three derived properties
ReadProperties ==
    /\ dsnap.made
    /\ dprops' = [read |-> TRUE, is_fresh_install |-> is_fresh_install(dsnap),
                  needs_secrets |-> needs_secrets(dsnap),
                  is_fully_deployed |-> is_fully_deployed(dsnap), exc |-> "none"]
    /\ UNCHANGED <<dhistory, dpackage, dengine, dsearch, dsnap, dorig, dcall, cvars,
                   bvars, pvars, svars, rvars, fcall>>

\* state.<field> = value, or del state.<field>: the frozen dataclass raises
SetAttr ==
    \E field \in StateFields :
        /\ dsnap.made
        /\ dprops' = [dprops EXCEPT !.exc = "FrozenInstanceError"]
        /\ UNCHANGED <<dhistory, dpackage, dengine, dsearch, dsnap, dorig, dcall, cvars,
                       bvars, pvars, svars, rvars, fcall>>

\* state.secrets_configured[agent] = value: the field holds a plain dict
SetSecretsEntry ==
    \E agent \in agents, value \in BOOLEAN :
        /\ dsnap.made
        /\ dsnap' = [dsnap EXCEPT !.secrets_configured =
                        [a \in DOMAIN @ \cup {agent} |-> IF a = agent THEN value ELSE @[a]]]
        /\ dprops' = NoProps
        /\ UNCHANGED <<dhistory, dpackage, dengine, dsearch, dorig, dcall, cvars, bvars,
                       pvars, svars, rvars, fcall>>

SnapshotInit ==
    /\ ContainersIdle
    /\ BackupIdle
    /\ PipelineIdle
    /\ SecretsIdle
    /\ RegistryIdle
    /\ DetectIdle
    /\ FunctionsIdle

SnapshotNext ==
    \/ Construct
    \/ ReadProperties
    \/ SetAttr
    \/ SetSecretsEntry

SnapshotSpec == SnapshotInit /\ [][SnapshotNext]_vars

(***************************************************************************)
(* StateDetector                                                           *)
(***************************************************************************)

\* subprocess.run of a podman command inside try / except (TimeoutExpired,
\* FileNotFoundError): "returncode == 0", False for the two exceptions caught,
\* and any other OSError of the start of the command propagates
podman_probe(engine, ok) ==
    CASE engine = "ok" -> [exc |-> "none", ret |-> ok]
      [] engine \in {"timeout", "notfound"} -> [exc |-> "none", ret |-> FALSE]
      [] engine = "oserror" -> [exc |-> "PermissionError", ret |-> FALSE]

\* Path.exists() of a path below /ai: False when stat() fails with ENOENT or
\* ENOTDIR, and the PermissionError of stat() propagates
path_exists(hist, search, there) ==
    IF ~hist.ai THEN [exc |-> "none", ret |-> FALSE]
    ELSE IF ~search THEN [exc |-> "PermissionError", ret |-> FALSE]
    ELSE [exc |-> "none", ret |-> there]

\* _check_containers: "podman pod exists ai-agents" exits 0
check_containers(pod, engine) == podman_probe(engine, pod # "absent")

\* _check_age_key
check_age_key(kf) == [exc |-> "none", ret |-> kf.exists]

\* _check_secrets
check_secrets(files, hist, search) ==
    LET e == [a \in agents |-> path_exists(hist, search, files[a].exists)]
    IN  IF \E a \in agents : e[a].exc # "none"
        THEN [exc |-> "PermissionError", ret |-> [a \in agents |-> FALSE]]
        ELSE [exc |-> "none", ret |-> [a \in agents |-> e[a].ret]]

\* _check_history_dirs
check_history_dirs(hist, search) ==
    IF ~hist.ai THEN [exc |-> "none", ret |-> FALSE]
    ELSE LET e == [a \in agents |-> path_exists(hist, search, a \in hist.dirs)]
         IN  IF e["claude"].exc # "none" THEN [exc |-> e["claude"].exc, ret |-> FALSE]
             ELSE [exc |-> "none", ret |-> \A a \in agents : e[a].ret]

\* _check_python_package: "podman exec claude-agent python3 -c 'import ai_agents...'"
\* exits 0
check_python_package(run, package, engine) ==
    podman_probe(engine, run["claude"] /\ package)

\* the probes in the order detect() evaluates them
ProbeNames ==
    <<"_check_containers", "_check_age_key", "_check_secrets", "_check_history_dirs",
      "_check_python_package">>

\* detect(): the five probes in order; the first exception ends the call
detect(pod, run, kf, files, hist, package, engine, search) ==
    LET c == check_containers(pod, engine)
        k == check_age_key(kf)
        sc == check_secrets(files, hist, search)
        h == check_history_dirs(hist, search)
        pp == check_python_package(run, package, engine)
        excs == <<c.exc, k.exc, sc.exc, h.exc, pp.exc>>
        failed == {i \in 1..Len(excs) : excs[i] # "none"}
    IN  IF failed = {}
        THEN [exc |-> "none",
              ret |-> DeploymentState(c.ret, k.ret, sc.ret, h.ret, pp.ret),
              probes |-> ProbeNames]
        ELSE LET first == CHOOSE i \in failed : \A j \in failed : i <= j
             IN  [exc |-> excs[first], ret |-> NoSnapshot,
                  probes |-> SubSeq(ProbeNames, 1, first)]

\* the environment detect() looks at
DetectEnv == <<cexists, crunning, cpod, keyFile, sfiles, sdirs, dhistory, dpackage,
               dengine, dsearch>>

\* the outcome of a detect() call now
Detected ==
    LET o == detect(cpod, crunning, keyFile, sfiles, dhistory, dpackage, dengine, dsearch)
    IN  [made |-> TRUE, n |-> 1 - dcall.n, exc |-> o.exc, ret |-> o.ret,
         probes |-> o.probes]

\* a detect() call that creates the history directories it looks for
CallDetectCreatingDirs ==
    /\ dcall' = Detected
    /\ dhistory' = [ai |-> TRUE, dirs |-> agents]
    /\ UNCHANGED <<cvars, bvars, pvars, svars, rvars, dpackage, dengine, dsearch, dsnap,
                   dorig, dprops, fcall>>

\* StateDetector().detect()
CallDetect ==
    /\ dcall' = Detected
    /\ UNCHANGED <<cvars, bvars, pvars, svars, rvars, dhistory, dpackage, dengine,
                   dsearch, dsnap, dorig, dprops, fcall>>

\* an encrypted secret file as encrypt_secret leaves it
StoredSecret ==
    [exists |-> TRUE, mode |-> 384, uid |-> 1000, gid |-> 100,
     plain |-> [prefix |-> "sk-ant-", len |-> 51, tail |-> "a", blank |-> FALSE],
     intact |-> TRUE]

\* the states of /ai: absent, or present with the agents' secret files and
\* history directories
AiTrees ==
    {t \in [ai : BOOLEAN, dirs : {{}, {"claude"}, agents}, secrets : {{}, {"claude"}, agents}] :
        ~t.ai => (t.dirs = {} /\ t.secrets = {})}

\* the environment outside the detector changes in one respect; what an earlier
\* detect() call returned says nothing about it any more
DetectEnvChange ==
    /\ \/ /\ dengine' \in EngineStates \ {dengine}
          /\ UNCHANGED <<cvars, svars, dhistory, dpackage, dsearch>>
       \/ /\ cpod' \in PodStates \ {cpod}
          /\ UNCHANGED <<cexists, crunning, ccall, svars, dhistory, dpackage, dengine,
                         dsearch>>
       \/ /\ cexists' = [cexists EXCEPT !["claude"] = ~@]
          /\ crunning' = cexists'
          /\ UNCHANGED <<cpod, ccall, svars, dhistory, dpackage, dengine, dsearch>>
       \/ /\ keyFile' \in {NoKeyFile, GoodKeyFile} \ {keyFile}
          /\ UNCHANGED <<cvars, sfiles, sdirs, sm, ident, scall, dhistory, dpackage,
                         dengine, dsearch>>
       \/ /\ \E t \in AiTrees :
                /\ dhistory' = [ai |-> t.ai, dirs |-> t.dirs]
                /\ sfiles' = [a \in agents |->
                                 IF a \in t.secrets THEN StoredSecret ELSE NoSecretFile]
                /\ sdirs' = [a \in agents |-> a \in t.secrets]
                /\ <<dhistory', sfiles'>> # <<dhistory, sfiles>>
          /\ UNCHANGED <<cvars, keyFile, sm, ident, scall, dpackage, dengine, dsearch>>
       \/ /\ dpackage' = ~dpackage
          /\ UNCHANGED <<cvars, svars, dhistory, dengine, dsearch>>
       \/ /\ dsearch' = ~dsearch
          /\ UNCHANGED <<cvars, svars, dhistory, dpackage, dengine>>
    /\ dcall' = NoDCall
    /\ UNCHANGED <<bvars, pvars, rvars, dsnap, dorig, dprops, fcall>>

DetectInit ==
    /\ cpod \in PodStates
    /\ \E up \in BOOLEAN :
           /\ cexists = [a \in agents |-> a = "claude" /\ up]
           /\ crunning = cexists
    /\ ccall = NoCall
    /\ keyFile \in {NoKeyFile, GoodKeyFile}
    /\ \E t \in AiTrees :
           /\ dhistory = [ai |-> t.ai, dirs |-> t.dirs]
           /\ sfiles = [a \in agents |->
                           IF a \in t.secrets THEN StoredSecret ELSE NoSecretFile]
           /\ sdirs = [a \in agents |-> a \in t.secrets]
    /\ sm = FALSE
    /\ ident = SudoAlice
    /\ scall = NoSCall
    /\ dpackage \in BOOLEAN
    /\ dengine \in EngineStates
    /\ dsearch \in BOOLEAN
    /\ dsnap = NoSnapshot
    /\ dorig = NoSnapshot
    /\ dprops = NoProps
    /\ dcall = NoDCall
    /\ BackupIdle
    /\ PipelineIdle
    /\ RegistryIdle
    /\ FunctionsIdle

DetectNext ==
    \/ CallDetect
    \/ DetectEnvChange

DetectSpec == DetectInit /\ [][DetectNext]_vars

(***************************************************************************)
(* SecureBackupManager.list_backups                                        *)
(***************************************************************************)

\* the file names ai-backup-<timestamp>.tar.gz.age of a store, by timestamp
ListNames == {"0101-000000", "0102-000000", "0103-000000"}

\* modification times
Mtimes == {1, 2}

\* the sequences over S without repetition: the orders in which glob() may
\* enumerate a directory holding some of these files
Enumerations(S) ==
    {q \in UNION {[1..n -> S] : n \in 0..Cardinality(S)} :
        \A i, j \in 1..Len(q) : i # j => q[i] # q[j]}

\* the backup directories list_backups may find: the directory exists or not, the
\* artifacts in glob's order, their modification times, and the name the symlink
\* ai-backup.latest.age holds ("none": there is no symlink)
BackupDirs ==
    {d \in [exists : BOOLEAN, order : Enumerations(ListNames), mtime : [ListNames -> Mtimes],
            link : ListNames \cup {"none"}] :
        ~d.exists => (d.order = <<>> /\ d.link = "none"
                      /\ d.mtime = [n \in ListNames |-> 1])}

\* sorted(..., reverse=True) puts x into an already sorted sequence: behind every
\* element whose key is not smaller, because the sort is stable
RECURSIVE InsertDescending(_, _, _)
InsertDescending(x, sorted, key) ==
    IF sorted = <<>> THEN <<x>>
    ELSE IF key[Head(sorted)] >= key[x]
         THEN <<Head(sorted)>> \o InsertDescending(x, Tail(sorted), key)
         ELSE <<x>> \o sorted

\* sorted(files, key=..., reverse=True)
RECURSIVE SortedDescending(_, _, _)
SortedDescending(files, done, key) ==
    IF files = <<>> THEN done
    ELSE SortedDescending(Tail(files), InsertDescending(Head(files), done, key), key)

\* the dict list_backups builds for one artifact
BackupInfo(d, name) ==
    [name |-> name, created |-> d.mtime[name],
     is_latest |-> IF d.link # "none" /\ \E i \in 1..Len(d.order) : d.order[i] = d.link
                   THEN name = d.link ELSE FALSE]

\* list_backups listing in glob's order
list_backups_unsorted(d) ==
    IF ~d.exists THEN <<>>
    ELSE [i \in 1..Len(d.order) |-> BackupInfo(d, d.order[i])]

\* list_backups
list_backups(d) ==
    IF ~d.exists THEN <<>>
    ELSE LET files == SortedDescending(d.order, <<>>, d.mtime)
         IN  [i \in 1..Len(files) |-> BackupInfo(d, files[i])]

(***************************************************************************)
(* SecretValidator on credential strings, character by character           *)
(***************************************************************************)

\* "sk-ant-", "xai-", "AIza" as sequences of characters
ClaudePrefix == <<"s", "k", "-", "a", "n", "t", "-">>

GrokPrefix == <<"x", "a", "i", "-">>

GeminiPrefix == <<"A", "I", "z", "a">>

\* the beginnings of the credential strings tried: the three prefixes, and strings
\* that miss one by a character or by case
KeyHeads ==
    {ClaudePrefix, GrokPrefix, GeminiPrefix, <<>>, <<"s", "k", "-", "a", "n", "t">>,
     <<"x", "a", "i">>, <<"a", "i", "z", "a">>, <<"A", "I", "z", "a", "-">>}

\* the lengths of the credential strings tried
KeyLengths == {0, 4, 30, 31, 40, 50, 51, 60}

\* the credential strings tried: a beginning filled up with "x" to a length
KeyStrings ==
    {h \o [i \in 1..(n - Len(h)) |-> "x"] : h \in KeyHeads, n \in KeyLengths}

\* key.startswith(prefix)
startswith(key, prefix) ==
    Len(key) >= Len(prefix) /\ SubSeq(key, 1, Len(prefix)) = prefix

\* SecretValidator.validate_claude_key
SecretValidator_validate_claude_key(key) == startswith(key, ClaudePrefix) /\ Len(key) > 50

\* validate_grok_key accepting 30 characters
SecretValidator_validate_grok_key_from_30(key) ==
    startswith(key, GrokPrefix) /\ Len(key) >= 30

\* SecretValidator.validate_grok_key
SecretValidator_validate_grok_key(key) == startswith(key, GrokPrefix) /\ Len(key) > 30

\* validate_gemini_key checking the length only
SecretValidator_validate_gemini_key_any_prefix(key) == Len(key) > 30

\* SecretValidator.validate_gemini_key
SecretValidator_validate_gemini_key(key) == startswith(key, GeminiPrefix) /\ Len(key) > 30

\* SecretValidator.validate: "True", "False", or "ValueError" for an unknown agent
SecretValidator_validate(agent, key) ==
    CASE agent = "claude" -> Bool(SecretValidator_validate_claude_key(key))
      [] agent = "grok" -> Bool(SecretValidator_validate_grok_key(key))
      [] agent = "gemini" -> Bool(SecretValidator_validate_gemini_key(key))
      [] OTHER -> "ValueError"

\* SecretValidator.validate(agent, key)
CallValidate ==
    \E agent \in AgentInputs \cup {"", "Claude"}, key \in KeyStrings :
        /\ fcall.fn = "-"
        /\ fcall' = [fn |-> "validate", agent |-> agent, key |-> key,
                     ret |-> SecretValidator_validate(agent, key)]
        /\ UNCHANGED <<cvars, bvars, pvars, svars, rvars, dvars>>

\* SecretValidator.validate(agent, key) for each of the three agents in turn,
\* with one key
CallValidateEach ==
    \E key \in KeyStrings :
        /\ fcall.fn = "-"
        /\ fcall' = [fn |-> "validate_each", key |-> key,
                     ret |-> [a \in agents |-> SecretValidator_validate(a, key)]]
        /\ UNCHANGED <<cvars, bvars, pvars, svars, rvars, dvars>>

(***************************************************************************)
(* SecureBackupManager._validate_backup, stage by stage                    *)
(***************************************************************************)

\* what age and tar do during "age -d | tar tzf -":
\*   started       both Popen calls succeed (else the except branch returns False)
\*   ageRc, tarRc  exit statuses of the decrypt and the list stage
\*   listed        tar wrote file names to its stdout
ValidateEnvs == [started : BOOLEAN, ageRc : Rcs, tarRc : Rcs, listed : BOOLEAN]

\* _validate_backup: communicate() waits for tar only, and only tar's
\* returncode is looked at
validate_backup_stages(env) ==
    IF ~env.started THEN "False"
    ELSE Bool(Returncode(TRUE, env.tarRc) = 0 /\ env.listed)

\* self._validate_backup(backup_path)
CallValidateBackup ==
    \E env \in ValidateEnvs :
        /\ fcall.fn = "-"
        /\ fcall' = [fn |-> "_validate_backup", env |-> env,
                     ret |-> validate_backup_stages(env)]
        /\ UNCHANGED <<cvars, bvars, pvars, svars, rvars, dvars>>

CallListBackups ==
    \E d \in BackupDirs :
        /\ fcall.fn = "-"
        /\ fcall' = [fn |-> "list_backups", dir |-> d, ret |-> list_backups(d)]
        /\ UNCHANGED <<cvars, bvars, pvars, svars, rvars, dvars>>

\* the caller is done with the result
FunctionReturn ==
    /\ fcall.fn # "-"
    /\ fcall' = NoFCall
    /\ UNCHANGED <<cvars, bvars, pvars, svars, rvars, dvars>>

FunctionsInit ==
    /\ fcall = NoFCall
    /\ ContainersIdle
    /\ BackupIdle
    /\ PipelineIdle
    /\ SecretsIdle
    /\ RegistryIdle
    /\ DetectIdle

FunctionsNext ==
    \/ CallListBackups
    \/ CallValidate
    \/ CallValidateEach
    \/ CallValidateBackup
    \/ FunctionReturn

FunctionsSpec == FunctionsInit /\ [][FunctionsNext]_vars

(***************************************************************************)
(* Claims                                                                  *)
(***************************************************************************)

\* C1: a call of an agent-taking method with an identifier outside
\* {claude, grok, gemini} raises ValueError and has issued no podman command.
C1_InvalidAgentRejected ==
    (ccall.method \in AgentMethods /\ ccall.agent \notin agents)
        => (ccall.exc = "ValueError" /\ ccall.cmds = <<>>)

\* a call with an identifier containing shell metacharacters has been rejected
C1_Witness ==
    /\ ccall.method = "exec_in_container"
    /\ ccall.agent = "claude; rm -rf /"
    /\ ccall.exc = "ValueError"

\* the element e occurs in the sequence s
Has(s, e) == \E i \in 1..Len(s) : s[i] = e

\* the first position of e in s
Pos(s, e) == CHOOSE i \in 1..Len(s) : s[i] = e /\ \A j \in 1..(i - 1) : s[j] # e

\* C2: over create_backup and restore_backup calls every artifact that existed
\* before the call still exists with identical content after it; only
\* delete_backup removes an artifact.
C2_BackupsImmutable ==
    [][bcall'.op \in {"create", "restore"}
         => \A n \in Names : store[n].present => store'[n] = store[n]]_vars

\* C3: restore_backup of an artifact that fails the round-trip check raises
\* SecurityError, takes no safety backup, starts no extraction and leaves the live
\* tree, the store and the latest pointer unchanged.
C3_InvalidRestoreChangesNothing ==
    [][(bcall'.op = "restore" /\ store[bcall'.path].present
            /\ ~store[bcall'.path].valid)
         => /\ bcall'.exc = "SecurityError"
            /\ bcall'.events = <<"validate">>
            /\ live' = live
            /\ store' = store
            /\ latest' = latest]_vars

\* a restore with safety backup requested on an existing live tree was refused
\* because the artifact did not pass validation
C3_Witness ==
    /\ bcall.op = "restore" /\ bcall.safety /\ ~bcall.dry /\ bcall.aiExisted
    /\ store[bcall.path].present /\ ~store[bcall.path].valid
    /\ store[bcall.path].tree # live
    /\ bcall.exc = "SecurityError"

C6_CreateSucceeds ==
    (bcall.op = "create" /\ bcall.aiExisted /\ keyMarker
        /\ bcall.firstRc = 0 /\ bcall.secondRc = 0
        /\ bcall.fsFault = "none" /\ bcall.roundTrip)
        => /\ bcall.exc = "none"
           /\ bcall.ret # NoPath
           /\ store[bcall.path].present
           /\ latest = bcall.path

\* C8: the pipelines of create_backup and restore_backup cannot deadlock: while
\* the operation has not finished, some process (a stage or the parent) can take a
\* step, whatever amount of output the stages write.
C8_PipelineNeverStuck == (ppc # "done") => ENABLED PipelineNext

\* C9: once validation has passed and dry_run is false, restore_backup raises
\* BackupError exactly when the decrypt or the extract stage exits non-zero.
C9_RestoreRaisesIffStageFails ==
    (bcall.op = "restore" /\ Has(bcall.events, "extract_wait"))
        => ((bcall.exc = "BackupError") <=> (bcall.firstRc # 0 \/ bcall.secondRc # 0))

\* C10: in restore_backup with create_safety_backup, without dry_run and with an
\* existing live tree, the safety backup attempt has ended before the extraction
\* stage is started.
C10_SafetyBackupBeforeExtraction ==
    (bcall.op = "restore" /\ bcall.safety /\ ~bcall.dry /\ bcall.aiExisted
        /\ Has(bcall.events, "extract_start"))
        => /\ Has(bcall.events, "safety_begin")
           /\ Has(bcall.events, "safety_end")
           /\ Pos(bcall.events, "safety_begin") < Pos(bcall.events, "safety_end")
           /\ Pos(bcall.events, "safety_end") < Pos(bcall.events, "extract_start")

\* a restore took its safety backup attempt and then started the extraction
C10_Witness ==
    /\ bcall.op = "restore" /\ bcall.safety /\ ~bcall.dry /\ bcall.aiExisted
    /\ Has(bcall.events, "safety_end")
    /\ Has(bcall.events, "extract_start")

\* C11 as claimed: whenever restore_backup has attempted the safety backup, whatever
\* the way the attempt failed, the call goes on to start the decrypt-and-extract
\* phase.
C11_SafetyFailureDoesNotBlock ==
    (bcall.op = "restore" /\ Has(bcall.events, "safety_begin"))
        => Has(bcall.events, "extract_start")

\* C12: restore_backup(dry_run=true) on an artifact that passes validation returns
\* normally after listing the contents, and leaves the live tree, the store and the
\* latest pointer as they were; no safety backup is taken, no extraction started.
C12_DryRunChangesNothing ==
    [][(bcall'.op = "restore" /\ bcall'.dry /\ store[bcall'.path].present
            /\ store[bcall'.path].valid)
         => /\ bcall'.exc = "none"
            /\ bcall'.events = <<"validate", "show_contents">>
            /\ live' = live
            /\ store' = store
            /\ latest' = latest]_vars

\* a dry run, with the safety backup requested, of a valid artifact whose tree
\* differs from the existing live tree has returned
C12_Witness ==
    /\ bcall.op = "restore" /\ bcall.dry /\ bcall.safety /\ bcall.aiExisted
    /\ store[bcall.path].present /\ store[bcall.path].valid
    /\ store[bcall.path].tree # live
    /\ bcall.exc = "none"

\* the ids of the real operator: those of the account that invoked sudo (ghost is
\* an account that the process's user database does not resolve), else the
\* process's own
OperatorIds(id) ==
    IF id.sudo_user = "alice" THEN <<1000, 100>>
    ELSE IF id.sudo_user = "ghost" THEN <<2000, 200>>
    ELSE <<id.uid, id.gid>>

\* C13: whenever encrypt_secret returns normally the agent's secret file has mode
\* exactly 0o600 and the uid and gid of the real operator, not of the elevated
\* identity.
C13_SecretOwnedByOperator ==
    (scall.op = "encrypt_secret" /\ scall.pc = "done" /\ scall.exc.type = "none")
        => LET f == sfiles[scall.agent]
           IN  /\ f.exists
               /\ f.mode = 384
               /\ <<f.uid, f.gid>> = OperatorIds(ident)

\* C14: in every state during and after encrypt_secret, a secret file that exists
\* is not readable by group or others (mode & 0o044 = 0).
C14_NeverGroupOrWorldReadable ==
    \A a \in agents : sfiles[a].exists => BitAnd(sfiles[a].mode, 36) = 0

\* C15: encrypt_secret with an unknown agent raises ValueError, and with a known
\* agent and a malformed secret raises SecurityError; in both cases no directory
\* is created, no encryption command is invoked and every secret file is unchanged.
C15_RejectedBeforeAnyEffect ==
    [][(scall.op = "-" /\ scall'.op = "encrypt_secret" /\ scall'.valid # "True")
         => /\ scall'.pc = "done"
            /\ scall'.exc.type = (IF scall'.agent \in agents THEN "SecurityError"
                                  ELSE "ValueError")
            /\ ~scall'.mkdir /\ sdirs' = sdirs
            /\ scall'.cmds = <<>>
            /\ sfiles' = sfiles]_vars

\* a malformed secret for claude was rejected while claude's secret file exists
C15_Witness ==
    /\ scall.op = "encrypt_secret" /\ scall.agent = "claude"
    /\ scall.valid = "False" /\ scall.exc.type = "SecurityError"
    /\ sfiles["claude"].exists /\ keyFile = GoodKeyFile

\* the secrets that a run may not be told apart from: same validity for the agent
\* (and, where sameBlank is asked for, blank exactly when p is)
Indistinguishable(agent, p, sameBlank) ==
    {q \in Plaintexts : /\ validate(agent, q) = validate(agent, p)
                        /\ sameBlank => (q.blank <=> p.blank)}

\* the outputs of the step just taken are those that the same step yields with
\* every other secret of Indistinguishable in place of the one used
SameOutputs(sameBlank) ==
    /\ (scall.op = "-" /\ scall'.op = "encrypt_secret")
         => \A p \in Plaintexts : validate(scall'.agent, p) = scall'.valid =>
              LET o == encrypt_secret(scall'.agent, p, keyFile, sfiles, sdirs, ident,
                                      scall'.wrote)
              IN  o.exc = scall'.exc /\ o.logs = scall'.logs /\ o.ret = scall'.ret
    /\ (scall.op = "encrypt_secret" /\ scall.pc = "age" /\ scall'.pc = "done")
         => \A p \in Indistinguishable(scall.agent, sfiles[scall.agent].plain, sameBlank) :
              LET o == encrypt_secret_end(scall.agent, scall.logs,
                           [sfiles EXCEPT ![scall.agent].plain = p], ident, scall'.rc)
              IN  o.exc = scall'.exc /\ o.logs = scall'.logs
    /\ (scall.op = "-" /\ scall'.op = "test_decryption" /\ scall'.rc # NoneRc)
         => \A p \in Indistinguishable(scall'.agent, sfiles[scall'.agent].plain, sameBlank) :
              LET o == test_decryption(scall'.agent,
                           [sfiles EXCEPT ![scall'.agent].plain = p], scall'.rc)
              IN  o.ret = scall'.ret /\ scall'.logs = <<>> /\ scall'.exc = NoExc

\* C16 as claimed: two runs of encrypt_secret or test_decryption that agree on the
\* agent, the secret's validity and the exit statuses emit the same log lines,
\* exception messages and return values, whatever the secret values.
C16_OutputsIndependentOfSecret == [][SameOutputs(FALSE)]_vars

\* C16 amended: the same, for two runs that also agree on whether the secret is
\* blank (test_decryption returns whether the stripped plaintext is non-empty).
C16_OutputsDependOnlyOnBlankness == [][SameOutputs(TRUE)]_vars

\* test_decryption of claude's file, holding a non-blank string that is not a valid
\* claude key, returned True
C16_Witness ==
    /\ scall.op = "test_decryption" /\ scall.agent = "claude" /\ scall.rc = 0
    /\ sfiles["claude"].exists /\ ~sfiles["claude"].plain.blank
    /\ validate("claude", sfiles["claude"].plain) = "False"
    /\ scall.ret = "True"

\* C17: every SecretsManager operation that takes an agent identifier rejects an
\* identifier outside {claude, grok, gemini} before anything else: it raises
\* ValueError, builds and probes no path and invokes no command.
C17_SecretsRejectUnknownAgent ==
    (scall.op \in {"encrypt_secret", "verify_secret_exists",
                   "verify_secret_permissions", "test_decryption"}
        /\ scall.agent \notin agents)
        => /\ scall.exc.type = "ValueError"
           /\ scall.probed = <<>>
           /\ scall.cmds = <<>>

\* C18: SecretsManager() and SecureBackupManager() raise SecurityError exactly when
\* the key file is absent or has a permission bit other than owner-read and
\* owner-write (mode & 0o177 # 0) set.
C18_ConstructionChecksKeyFile ==
    (scall.op \in {"SecretsManager", "SecureBackupManager"})
        => ((scall.exc.type = "SecurityError")
               <=> (~keyFile.exists \/ BitAnd(keyFile.mode, 127) # 0))

\* C19: whenever the key file is absent or has permission bits beyond owner
\* read-write while encrypt_secret runs, the operation fails and has created no
\* directory, invoked no encryption command and written no file.
C19_KeyFileHardStop ==
    (scall.op = "encrypt_secret" /\ scall.valid = "True"
        /\ (~keyFile.exists \/ BitAnd(keyFile.mode, 127) # 0))
        => /\ scall.pc = "done" /\ scall.exc.type # "none"
           /\ scall.cmds = <<>>
           /\ ~scall.mkdir

\* C20: an operation whose age process never exits still ends: while a call is in
\* progress some step (the process's exit, a timeout, the return) can be taken.
C20_CallNeverBlocksForever == (scall.pc = "age") => ENABLED SecretsNext

\* C21: every podman command of a call carries a timeout, the caller's value for
\* the exec command of exec_in_container called with one and the 30 s default
\* otherwise; a command that timed out or found no podman binary is the last
\* command of the call (it is not retried, nothing is issued after it) and the
\* call raised ContainerError.
C21_TimeoutOnEveryCommand ==
    \A i \in 1..Len(ccall.cmds) :
        /\ ccall.cmds[i].timeout =
               IF ccall.cmds[i].argv[2] = "exec" /\ ccall.timeout # NoTimeout
               THEN ccall.timeout ELSE DefaultTimeout
        /\ ccall.cmds[i].timeout > 0
        /\ ccall.cmds[i].fault # "none"
               => (i = Len(ccall.cmds) /\ ccall.exc = "ContainerError")

\* exec_in_container passed its caller's timeout to the exec command, which timed
\* out after the two queries of the running check
C21_Witness ==
    /\ ccall.method = "exec_in_container"
    /\ Len(ccall.cmds) = 3
    /\ ccall.cmds[3].timeout = CallerTimeout
    /\ ccall.cmds[3].fault = "timeout"
    /\ ccall.exc = "ContainerError"

\* the call issued a command that starts or stops a unit
IssuedStartOrStop ==
    \E i \in 1..Len(ccall.cmds) :
        \/ ccall.cmds[i].argv[2] \in {"start", "stop"}
        \/ ccall.cmds[i].argv[2] = "pod" /\ ccall.cmds[i].argv[3] \in {"start", "stop"}

\* the call is a start of a running unit or a stop of a stopped (for the pod, also
\* an absent) unit
OnRequestedState ==
    \/ ccall.method = "start_container" /\ ccall.before = "True"
    \/ ccall.method = "stop_container" /\ ccall.before = "False"
    \/ ccall.method = "start_pod" /\ ccall.before = "Running"
    \/ ccall.method = "stop_pod" /\ ccall.before \in {"Exited", "absent"}

\* every query of the call ran to completion, and its status query ("podman ps",
\* "podman pod ps") exited 0
ProbesAnswered ==
    \A i \in 1..Len(ccall.cmds) :
        /\ ccall.cmds[i].fault = "none"
        /\ (\/ ccall.cmds[i].argv[2] = "ps"
            \/ ccall.cmds[i].argv[2] = "pod" /\ ccall.cmds[i].argv[3] = "ps")
               => ccall.cmds[i].rc = 0

\* C22 as stated: a start of a running unit and a stop of a stopped unit return
\* True and issue no start or stop command.
C22_NoOpOnRequestedState ==
    OnRequestedState
        => (ccall.exc = "none" /\ ccall.ret = "True" /\ ~IssuedStartOrStop)

\* C22, amended: a start of a running unit and a stop of a stopped unit whose
\* queries of the engine were answered return True and issue no start or stop
\* command.
C22_NoOpWhenProbesAnswered ==
    (OnRequestedState /\ ProbesAnswered)
        => (ccall.exc = "none" /\ ccall.ret = "True" /\ ~IssuedStartOrStop)

\* stop_container found its existing container stopped after both queries
C22_Witness ==
    /\ ccall.method = "stop_container"
    /\ ccall.before = "False"
    /\ ProbesAnswered
    /\ Len(ccall.cmds) = 2
    /\ ccall.ret = "True"

\* the call issued "podman exec" as its command number i
IssuedExecAt(i) == i \in 1..Len(ccall.cmds) /\ ccall.cmds[i].argv[2] = "exec"

\* C23: exec_in_container on a valid agent whose container is not running raises
\* ContainerError and issues no "podman exec"; an exec command is issued only
\* for a running container, directly after the status query that exited 0.
C23_ExecOnlyWhenRunning ==
    (ccall.method = "exec_in_container" /\ ccall.agent \in agents)
        => /\ ccall.before = "False"
               => (ccall.exc = "ContainerError" /\ \A i \in 1..Len(ccall.cmds) : ~IssuedExecAt(i))
           /\ \A i \in 1..Len(ccall.cmds) :
                  IssuedExecAt(i)
                      => /\ ccall.before = "True"
                         /\ i = 3
                         /\ ccall.cmds[2].argv[2] = "ps"
                         /\ ccall.cmds[2].rc = 0
                         /\ ccall.cmds[2].fault = "none"

\* exec_in_container found its existing container stopped and raised
C23_Witness ==
    /\ ccall.method = "exec_in_container"
    /\ ccall.agent = "grok"
    /\ ccall.before = "False"
    /\ ProbesAnswered
    /\ Len(ccall.cmds) = 2
    /\ ccall.exc = "ContainerError"

\* the call's command number i starts, stops or restarts a unit
IsMutatingCommand(i) ==
    \/ ccall.cmds[i].argv[2] \in {"start", "stop", "restart"}
    \/ ccall.cmds[i].argv[2] = "pod" /\ ccall.cmds[i].argv[3] \in {"start", "stop", "restart"}

\* C24: a start, stop or restart of a container or of the pod whose engine
\* command ran and exited non-zero raises ContainerError.
C24_NonZeroExitRaises ==
    \A i \in 1..Len(ccall.cmds) :
        (/\ ccall.method \in {"start_container", "stop_container", "restart_container",
                              "start_pod", "stop_pod", "restart_pod"}
         /\ IsMutatingCommand(i)
         /\ ccall.cmds[i].fault = "none"
         /\ ccall.cmds[i].rc # 0)
            => ccall.exc = "ContainerError"

\* the update e, written by a call that has returned, is in the registry reg
EffectIn(e, reg) ==
    /\ reg[e.name].present
    /\ e.op = "add_conversation" => InSeq(reg[e.name].conversations, e.conv)
    /\ e.op = "update_activity" => reg[e.name].last_activity >= e.at

\* C25: whenever both processes are outside a call, projects.json is a registry
\* that contains the update of every create_project, update_activity and
\* add_conversation call that wrote and returned, under every interleaving.
C25_NoLostUpdate ==
    (\A p \in Procs : rprocs[p].pc = "idle")
        => /\ rfile.kind = "json"
           /\ \A e \in rdone : EffectIn(e, rfile.data)

\* C26: a DeploymentState object keeps the field values it was constructed with,
\* the entries of its secrets_configured mapping included.
C26_SnapshotImmutable == dsnap = dorig

\* C27: is_fully_deployed is true exactly when containers_running, age_key_exists
\* and python_package_installed are true and every entry of secrets_configured
\* is true.
C27_FullyDeployedIff ==
    dprops.read
        => (dprops.is_fully_deployed
                <=> /\ dsnap.containers_running
                    /\ dsnap.age_key_exists
                    /\ dsnap.python_package_installed
                    /\ \A a \in DOMAIN dsnap.secrets_configured :
                           dsnap.secrets_configured[a])

\* is_fully_deployed was read as true from a snapshot with all three agents'
\* secrets configured
C27_Witness ==
    /\ dprops.read
    /\ dprops.is_fully_deployed
    /\ DOMAIN dsnap.secrets_configured = agents
    /\ dsnap.history_dirs_exist

\* C28: needs_secrets is true exactly when some entry of secrets_configured is
\* false, and needs_secrets and is_fully_deployed are never both true.
C28_NeedsSecretsIff ==
    dprops.read
        => /\ dprops.needs_secrets
                  <=> \E a \in DOMAIN dsnap.secrets_configured :
                          ~dsnap.secrets_configured[a]
           /\ ~(dprops.needs_secrets /\ dprops.is_fully_deployed)

\* needs_secrets was read as true from a snapshot in which only grok's secret is
\* missing and everything else is in place
C28_Witness ==
    /\ dprops.read
    /\ dprops.needs_secrets
    /\ ~dprops.is_fully_deployed
    /\ dsnap.secrets_configured = [a \in agents |-> a # "grok"]
    /\ dsnap.containers_running
    /\ dsnap.age_key_exists
    /\ dsnap.python_package_installed

\* C29: every detect() call returns a DeploymentState, without an exception and
\* with all five probes evaluated, whichever probe fails.
C29_DetectNeverRaises ==
    dcall.made => (dcall.exc = "none" /\ dcall.ret.made /\ dcall.probes = ProbeNames)

C31_ListNewestFirst ==
    fcall.fn = "list_backups"
        => LET d == fcall.dir
               r == fcall.ret
           IN  /\ ~d.exists => r = <<>>
               /\ d.exists
                      => /\ Len(r) = Len(d.order)
                         /\ \A i \in 1..Len(d.order) :
                                Cardinality({j \in 1..Len(r) : r[j].name = d.order[i]}) = 1
                         /\ \A j \in 1..Len(r) - 1 : r[j].created >= r[j + 1].created
                         /\ \A j \in 1..Len(r) : r[j].created = d.mtime[r[j].name]

\* three artifacts that glob enumerated oldest first were listed newest first
C31_Witness ==
    /\ fcall.fn = "list_backups"
    /\ Len(fcall.ret) = 3
    /\ fcall.dir.mtime[fcall.dir.order[1]] < fcall.dir.mtime[fcall.dir.order[3]]
    /\ fcall.ret[1].name = fcall.dir.order[3]

\* C32: a delete_backup(path) call leaves every artifact other than the one at
\* path, the latest pointer and the live tree unchanged; when it returns normally
\* the file that was at path is gone; when no file is at path it raises
\* BackupError; whenever it raises, nothing has changed.
C32_DeleteExactlyOne ==
    [][(bcall.op = "-" /\ bcall'.op = "delete")
           => /\ \A n \in Names \ {bcall'.path} : store'[n] = store[n]
              /\ latest' = latest
              /\ live' = live
              /\ ~store[bcall'.path].present => bcall'.exc = "BackupError"
              /\ bcall'.exc = "none"
                     => (store[bcall'.path].present /\ ~store'[bcall'.path].present)
              /\ bcall'.exc # "none" => store' = store]_vars

\* delete_backup removed the artifact of second 0 while the artifact of second 1
\* stays in the store
C32_Witness ==
    /\ bcall.op = "delete"
    /\ bcall.path = 0
    /\ bcall.exc = "none"
    /\ ~store[0].present
    /\ store[1].present

\* the prefix and the length a key of the agent must exceed
KeyFormat ==
    [claude |-> [prefix |-> ClaudePrefix, longer |-> 50],
     grok |-> [prefix |-> GrokPrefix, longer |-> 30],
     gemini |-> [prefix |-> GeminiPrefix, longer |-> 30]]

\* C33: validate(agent, key) returns true exactly when key starts with the agent's
\* prefix and is longer than the agent's minimum (claude 50, grok and gemini
\* 30); for an agent outside the three it raises ValueError.
C33_ValidateIff ==
    fcall.fn = "validate"
        => IF fcall.agent \in agents
           THEN fcall.ret =
                    Bool(/\ Len(fcall.key) >= Len(KeyFormat[fcall.agent].prefix)
                         /\ \A i \in 1..Len(KeyFormat[fcall.agent].prefix) :
                                fcall.key[i] = KeyFormat[fcall.agent].prefix[i]
                         /\ Len(fcall.key) > KeyFormat[fcall.agent].longer)
           ELSE fcall.ret = "ValueError"

\* "xai-" followed by 26 characters, 30 in all, was rejected for grok
C33_Witness ==
    /\ fcall.fn = "validate"
    /\ fcall.agent = "grok"
    /\ Len(fcall.key) = 30
    /\ SubSeq(fcall.key, 1, 4) = GrokPrefix
    /\ fcall.ret = "False"

\* C35: no credential string is accepted by validate for more than one agent.
C35_FormatsExclusive ==
    fcall.fn = "validate_each"
        => Cardinality({a \in agents : fcall.ret[a] = "True"}) <= 1

\* "xai-" followed by 36 characters was accepted for grok and rejected for claude
\* and gemini
C35_Witness ==
    /\ fcall.fn = "validate_each"
    /\ Len(fcall.key) = 40
    /\ fcall.ret = [a \in agents |-> Bool(a = "grok")]

\* C34: _validate_backup returns true only if the decrypt stage exited 0 and the
\* list stage exited 0 with a non-empty file list.
C34_BothStagesChecked ==
    (fcall.fn = "_validate_backup" /\ fcall.ret = "True")
        => (fcall.env.ageRc = 0 /\ fcall.env.tarRc = 0 /\ fcall.env.listed)

\* the add_conversation calls that wrote conv to project n and returned
Added(n, conv) ==
    {e \in rdone : e.op = "add_conversation" /\ e.name = n /\ e.conv = conv}

\* the conversations of project n in projects.json: no name twice, every name one
\* that was added, in the order of the first additions, and no added name missing
OrderedSet(n) ==
    LET cs == rfile.data[n].conversations
    IN  /\ \A i, j \in 1..Len(cs) : i < j => cs[i] # cs[j]
        /\ \A i \in 1..Len(cs) : Added(n, cs[i]) # {}
        /\ \A i, j \in 1..Len(cs) :
              i < j => \E e \in Added(n, cs[i]) :
                          \A f \in Added(n, cs[j]) : e.at < f.at
        /\ \A conv \in ConversationNames : Added(n, conv) # {} => InSeq(cs, conv)

\* the call the process is about to decide on finds the project (create_project) or
\* finds no project or the conversation already linked (add_conversation)
NothingToDo ==
    LET c == rprocs[SingleProc]
    IN  /\ c.pc = "modify"
        /\ rfile.kind = "json"
        /\ \/ c.op = "create_project" /\ rfile.data[c.name].present
           \/ /\ c.op = "add_conversation"
              /\ \/ ~rfile.data[c.name].present
                 \/ InSeq(rfile.data[c.name].conversations, c.conv)

\* C36: with one process calling create_project and add_conversation, the
\* conversations of every project are an ordered set (no name twice, in the order
\* of first addition); add_conversation on an unknown project and create_project on
\* an existing name leave projects.json as it is, and the latter returns False.
C36_ConversationsOrderedSet ==
    /\ [](rprocs[SingleProc].pc = "idle"
            => /\ rfile.kind = "json"
               /\ \A n \in ProjectNames : OrderedSet(n))
    /\ [][NothingToDo
            => /\ rfile' = rfile
               /\ rprocs'[SingleProc].pc = "idle"
               /\ rprocs[SingleProc].op = "create_project"
                     => rprocs'[SingleProc].ret = "False"]_vars

C36_Witness ==
    /\ rprocs[SingleProc].pc = "idle"
    /\ rprocs[SingleProc].ret = "False"
    /\ rfile.kind = "json"
    /\ rfile.data["alpha"].conversations = <<"conv2", "conv1">>

\* a container engine that answers every command of a ContainerManager
AnsweringEngine ==
    [faultAt |-> 0, faultKind |-> "timeout", rcOk |-> TRUE, psOk |-> TRUE, fields |-> 4]

\* C37: detect() reports containers_running = true only when the pod is running,
\* as is_pod_running() answers on the same engine state; a pod that exists but is
\* stopped gives containers_running = false.
C37_ContainersRunningIsPodRunning ==
    (dcall.made /\ dcall.exc = "none" /\ dcall.ret.containers_running)
        => /\ cpod = "Running"
           /\ is_pod_running(<<>>, cpod, AnsweringEngine).ret = "True"

\* C38: under every interleaving of a process in _write_projects with a process
\* in _read_projects, the text json.load reads is a registry that a writer wrote
\* completely (never a truncated or torn file), and the registry the reader
\* returns holds every project of that text.
C38_ReaderSeesCompleteRegistry ==
    [][\A p \in Procs :
          (rprocs[p].pc = "read_load" /\ rprocs'[p].pc = "read_unlock")
              => /\ rfile.kind = "json"
                 /\ rprocs'[p].data = rfile.data]_vars

====
